---------------------------- MODULE Spec2Model ----------------------------
(***************************************************************************)
(* A model of the equity core of src/rl_bot/player.py: the 5-card hand     *)
(* classifier (eval5), the best-hand search (eval7), the equity cache      *)
(* (calculate_equity), the discard selector (get_best_discard) and the     *)
(* engine hooks of class Player.                                           *)
(*                                                                         *)
(* A card is the two-character token of the source, written here as the    *)
(* pair <<rank character, suit character>>: c[0] of the source is c[1]     *)
(* here and c[1] of the source is c[2].  A Python tuple returned by eval5  *)
(* is written as the flat sequence of its integers: the only nested tuple  *)
(* of any eval5 result is its last component, so the lexicographic order   *)
(* of the flat sequences is the order of the Python tuples.                *)
(*                                                                         *)
(* Four specifications: SpecEval (eval5 and eval7 on drawn pools), Spec    *)
(* (the Player's operations around the equity cache), SpecAction           *)
(* (get_action over the whole interface) and SpecBucket (the iteration     *)
(* bucket).  Equities are counted in half wins of the bucket's iterations, *)
(* so that wins / iterations is compared without fractions.                *)
(***************************************************************************)
EXTENDS Integers, Sequences, FiniteSets, TLC

(***************************************************************************)
(* Bounds of the model.                                                    *)
(***************************************************************************)
\* Pairs of hands and pools of 5..8 cards are drawn from the first
\* SmallDeckSize cards of SmallDeckList.
SmallDeckSize == 10

\* Iteration counts are drawn from 0..MaxIterations.
MaxIterations == 125

(***************************************************************************)
(* Cards                                                                   *)
(***************************************************************************)
RANK_TO_INT ==
  [c \in {"2","3","4","5","6","7","8","9","T","J","Q","K","A"} |->
     CASE c = "2" -> 2  [] c = "3" -> 3  [] c = "4" -> 4  [] c = "5" -> 5
       [] c = "6" -> 6  [] c = "7" -> 7  [] c = "8" -> 8  [] c = "9" -> 9
       [] c = "T" -> 10 [] c = "J" -> 11 [] c = "Q" -> 12 [] c = "K" -> 13
       [] c = "A" -> 14]

RankChars == <<"2","3","4","5","6","7","8","9","T","J","Q","K","A">>
SuitChars == <<"c","d","h","s">>

\* full_deck = [r + s for r in "23456789TJQKA" for s in "cdhs"]
full_deck ==
  [i \in 1..52 |-> <<RankChars[((i - 1) \div 4) + 1], SuitChars[((i - 1) % 4) + 1]>>]

Range(s) == {s[i] : i \in DOMAIN s}

(***************************************************************************)
(* Python helpers: max, sorted(..., reverse=True), tuple comparison        *)
(***************************************************************************)
SetMax(S) == CHOOSE m \in S : \A x \in S : x <= m

\* the element of a one-element set: names a value that is computed once
Only(S) == CHOOSE v \in S : TRUE

\* sorted(set_of_ints, reverse=True)
RECURSIVE SortSetDesc(_)
SortSetDesc(S) ==
  IF S = {} THEN <<>>
  ELSE LET m == SetMax(S) IN <<m>> \o SortSetDesc(S \ {m})

\* Counter(seq): how often each value occurs
Counter(seq) ==
  [v \in Range(seq) |-> Cardinality({i \in DOMAIN seq : seq[i] = v})]

RECURSIVE Repeat(_, _)
Repeat(v, n) == IF n = 0 THEN <<>> ELSE <<v>> \o Repeat(v, n - 1)

RECURSIVE ConcatAll(_)
ConcatAll(ss) == IF ss = <<>> THEN <<>> ELSE Head(ss) \o ConcatAll(Tail(ss))

\* sorted(list_of_ints, reverse=True): the values in descending order, each
\* as often as it occurs
SortDesc(seq) ==
  LET u == SortSetDesc(Range(seq))
      c == Counter(seq)
  IN  ConcatAll([i \in DOMAIN u |-> Repeat(u[i], c[u[i]])])

\* a < b for two Python tuples of integers: the first differing component
\* decides, and a proper prefix is smaller
TupleLT(a, b) ==
  \E i \in 1..(Len(b)) :
     /\ \A j \in 1..(i - 1) : j <= Len(a) /\ a[j] = b[j]
     /\ \/ i = Len(a) + 1
        \/ i <= Len(a) /\ a[i] < b[i]

(***************************************************************************)
(* eval5                                                                   *)
(***************************************************************************)
\* The result that stands for an exception leaving the call (ValueError of
\* max() on an empty sequence, IndexError of counts_sorted[0]).
Raised == <<-1>>

\* sorted(rank_counts.items(), key=lambda x: (x[1], x[0]), reverse=True),
\* as a sequence of <<rank, count>>
RECURSIVE CountsSortedOf(_, _)
CountsSortedOf(S, c) ==
  IF S = {} THEN <<>>
  ELSE LET top == CHOOSE r \in S :
                    \A q \in S : c[q] < c[r] \/ (c[q] = c[r] /\ q <= r)
       IN  <<(<<top, c[top]>>)>> \o CountsSortedOf(S \ {top}, c)

\* Lines 405-415: straight detection on the distinct ranks, descending;
\* the plain test comes first, the wheel A-5 second
StraightOfNoWheel(uniq) ==
  IF Len(uniq) = 5 /\ uniq[1] - uniq[5] = 4
    THEN [is_straight |-> TRUE, straight_high |-> uniq[1]]
    ELSE [is_straight |-> FALSE, straight_high |-> 0]

StraightOfAceHighWheel(uniq) ==
  IF Len(uniq) = 5 /\ uniq[1] - uniq[5] = 4
    THEN [is_straight |-> TRUE, straight_high |-> uniq[1]]
  ELSE IF Len(uniq) = 5 /\ uniq = <<14, 5, 4, 3, 2>>
    THEN [is_straight |-> TRUE, straight_high |-> uniq[1]]
  ELSE [is_straight |-> FALSE, straight_high |-> 0]

StraightOf(uniq) ==
  IF Len(uniq) = 5 /\ uniq[1] - uniq[5] = 4
    THEN [is_straight |-> TRUE, straight_high |-> uniq[1]]
  ELSE IF Len(uniq) = 5 /\ uniq = <<14, 5, 4, 3, 2>>
    THEN [is_straight |-> TRUE, straight_high |-> 5]
  ELSE [is_straight |-> FALSE, straight_high |-> 0]

\* sorted([r for r in ranks if r != c_rank], reverse=True); ranks is sorted
\* descending already
KickersAscending(ranks, c_rank) ==
  LET k == SelectSeq(ranks, LAMBDA r : r # c_rank)
  IN  [i \in DOMAIN k |-> k[Len(k) + 1 - i]]

Kickers(ranks, c_rank) == SelectSeq(ranks, LAMBDA r : r # c_rank)

eval5(cards5) ==
  LET ranks == SortDesc([i \in DOMAIN cards5 |-> RANK_TO_INT[cards5[i][1]]])
      suits == [i \in DOMAIN cards5 |-> cards5[i][2]]
      rank_counts == Counter(ranks)
      counts_sorted == CountsSortedOf(DOMAIN rank_counts, rank_counts)
      is_flush == Cardinality(Range(suits)) = 1
      uniq == SortSetDesc(Range(ranks))
      is_straight == StraightOf(uniq).is_straight
      straight_high == StraightOf(uniq).straight_high
  IN  IF is_flush /\ is_straight THEN <<8, straight_high>>
      ELSE IF counts_sorted = <<>> THEN Raised
      ELSE
      LET c1_rank == counts_sorted[1][1]
          c1_cnt  == counts_sorted[1][2]
          c2_rank == IF Len(counts_sorted) > 1 THEN counts_sorted[2][1] ELSE 0
          c2_cnt  == IF Len(counts_sorted) > 1 THEN counts_sorted[2][2] ELSE 0
          others(excl) == Range(ranks) \ excl
      IN  IF c1_cnt = 4
            THEN IF others({c1_rank}) = {} THEN Raised
                 ELSE <<7, c1_rank, SetMax(others({c1_rank}))>>
          ELSE IF c1_cnt = 3 /\ c2_cnt = 2 THEN <<6, c1_rank, c2_rank>>
          ELSE IF is_flush THEN <<5>> \o ranks
          ELSE IF is_straight THEN <<4, straight_high>>
          ELSE IF c1_cnt = 3 THEN <<3, c1_rank>> \o Kickers(ranks, c1_rank)
          ELSE IF c1_cnt = 2 /\ c2_cnt = 2
            THEN LET high_pair == IF c1_rank >= c2_rank THEN c1_rank ELSE c2_rank
                     low_pair  == IF c1_rank <= c2_rank THEN c1_rank ELSE c2_rank
                 IN  IF others({high_pair, low_pair}) = {} THEN Raised
                     ELSE <<2, high_pair, low_pair,
                            SetMax(others({high_pair, low_pair}))>>
          ELSE IF c1_cnt = 2 THEN <<1, c1_rank>> \o Kickers(ranks, c1_rank)
          ELSE <<0>> \o ranks

(***************************************************************************)
(* eval7                                                                   *)
(***************************************************************************)
\* itertools.combinations(range(n), k), in its order, as index sequences
\* over lo..n (indices from 1 here)
RECURSIVE CombinationsFrom(_, _, _)
CombinationsFrom(lo, n, k) ==
  IF k = 0 THEN << <<>> >>
  ELSE IF n - lo + 1 < k THEN <<>>
  ELSE LET with == CombinationsFrom(lo + 1, n, k - 1)
       IN  [i \in DOMAIN with |-> <<lo>> \o with[i]]
           \o CombinationsFrom(lo + 1, n, k)

\* Lines 379-380 comparing the category alone
Eval7StepKeepsFirst(best, candidate) ==
  IF best = <<>> \/ (candidate[1] > best[1]) THEN candidate ELSE best

\* Lines 379-380, one pass of the loop of eval7: best is <<>> for None,
\* candidate is `score` of line 378
Eval7Step(best, candidate) ==
  IF best = <<>> \/ TupleLT(best, candidate) THEN candidate ELSE best

\* Lines 376-380: the passes lo..hi of the loop over the combinations, in
\* their order, starting from best.  A stretch of passes is run as its first
\* half followed by its second half, which keeps the evaluation shallow.
RECURSIVE Eval7Loop(_, _, _, _, _)
Eval7Loop(cards, combos, lo, hi, best) ==
  IF lo > hi THEN best
  ELSE IF lo = hi
    THEN Eval7Step(best, eval5([i \in DOMAIN combos[lo] |-> cards[combos[lo][i]]]))
  ELSE LET mid == (lo + hi) \div 2
       IN  Only({Eval7Loop(cards, combos, mid + 1, hi, first) :
                 first \in {Eval7Loop(cards, combos, lo, mid, best)}})

eval7(cards) ==
  LET n == Len(cards)
  IN  IF n <= 5 THEN eval5(cards)
      ELSE Only({Eval7Loop(cards, combos, 1, Len(combos), <<>>) :
                 combos \in {CombinationsFrom(1, n, 5)}})


(***************************************************************************)
(* The equity cache: calculate_equity                                      *)
(***************************************************************************)
\* What dict.get returns for a missing key.  Stored estimates are
\* wins / iterations >= 0, written here as the number of half wins of the
\* bucket's iterations (wins = half wins / 2).
None == -1

\* Line 291 with < written for <=
ItBucketStrict(iterations) ==
  IF iterations < 45 THEN 40
  ELSE IF iterations < 70 THEN 60
  ELSE IF iterations < 100 THEN 90
  ELSE 120

\* Line 291: the iteration bucket
ItBucket(iterations) ==
  IF iterations <= 45 THEN 40
  ELSE IF iterations <= 70 THEN 60
  ELSE IF iterations <= 100 THEN 90
  ELSE 120

\* ord() of the characters of a card token
Ord ==
  [c \in {"2","3","4","5","6","7","8","9","T","J","Q","K","A","c","d","h","s"} |->
     CASE c = "2" -> 50 [] c = "3" -> 51 [] c = "4" -> 52 [] c = "5" -> 53
       [] c = "6" -> 54 [] c = "7" -> 55 [] c = "8" -> 56 [] c = "9" -> 57
       [] c = "A" -> 65 [] c = "J" -> 74 [] c = "K" -> 75 [] c = "Q" -> 81
       [] c = "T" -> 84 [] c = "c" -> 99 [] c = "d" -> 100 [] c = "h" -> 104
       [] c = "s" -> 115]

\* a < b for two card tokens (Python string comparison)
CardLess(a, b) ==
  \/ Ord[a[1]] < Ord[b[1]]
  \/ Ord[a[1]] = Ord[b[1]] /\ Ord[a[2]] < Ord[b[2]]

\* sorted(my_cards)
RECURSIVE SortedCards(_)
SortedCards(cards) ==
  IF cards = <<>> THEN <<>>
  ELSE LET rest == SortedCards(Tail(cards))
           c == Head(cards)
           k == Cardinality({j \in DOMAIN rest : CardLess(rest[j], c)})
       IN  SubSeq(rest, 1, k) \o <<c>> \o SubSeq(rest, k + 1, Len(rest))

\* Line 292: key = (tuple(sorted(my_cards)), tuple(board), street, it_bucket)
CacheKey(my_cards, board, street, it_bucket) ==
  <<SortedCards(my_cards), board, street, it_bucket>>

\* Line 294 without the cache: nothing is ever found
CacheNeverRead(cache, key) == None

\* Line 294: self.eq_cache.get(key)
CacheGet(cache, key) == IF key \in DOMAIN cache THEN cache[key] ELSE None

\* Line 295 written as `if cached:`
IsHitIfTruthy(cached) == cached # None /\ cached # 0

\* Line 295: cached is not None
IsHit(cached) == cached # None

\* Lines 314-323, 329-342: an exception leaves calculate_equity_python when
\* best_two_from_three hands eval7 a pool on which eval5 fails.  opp3 is any
\* three cards of the unseen deck and keep any two of them, in their order;
\* with three own cards the own retentions are evaluated too.
KeepsOf(cards3) ==
  {<<cards3[1], cards3[2]>>, <<cards3[1], cards3[3]>>, <<cards3[2], cards3[3]>>}

\* Lines 336-337: our own three cards, if we still hold three
OwnMayRaise(my_cards, board) ==
  /\ Len(my_cards) = 3
  /\ \E keep \in KeepsOf(my_cards) : eval7(keep \o board) = Raised

\* Lines 310-312, 326-331, 342: the opponent's three cards come from the
\* shuffled deck of the cards not in `used`, so any two of them can be a keep
OppMayRaise(used, board) ==
  LET deck == {full_deck[i] : i \in DOMAIN full_deck} \ used
  IN  /\ Cardinality(deck) >= 3
      /\ \E a \in deck : \E b \in deck \ {a} : eval7(<<a, b>> \o board) = Raised

\* Lines 298, 302-357: what a call of calculate_equity_python can give its
\* caller: wins / iterations for some count of half wins, or an exception.
\* halfwins is the set of counts the model lets the random runs produce.
SimOutcomes(may_raise, halfwins) ==
  {[raised |-> FALSE, wins2 |-> w] : w \in halfwins}
    \cup (IF may_raise THEN {[raised |-> TRUE, wins2 |-> 0]} ELSE {})

\* Line 298 with the count asked for in place of the bucket
IterationsAsAsked(iterations, it_bucket) == iterations

\* Line 298: iterations=it_bucket
SimIterations(iterations, it_bucket) == it_bucket

\* Lines 289-300.  out is the outcome of the simulator, used on a miss only.
\* sims counts the calls of calculate_equity_python, sim_iterations is the
\* iteration count handed to it.
calculate_equity(cache, my_cards, board, street, iterations, out) ==
  LET it_bucket == ItBucket(iterations)
      key == CacheKey(my_cards, board, street, it_bucket)
      cached == CacheGet(cache, key)
  IN  IF IsHit(cached)
        THEN [eq_cache |-> cache, raised |-> FALSE, eq |-> cached,
              sims |-> 0, sim_iterations |-> 0]
      ELSE IF out.raised
        THEN [eq_cache |-> cache, raised |-> TRUE, eq |-> None,
              sims |-> 1, sim_iterations |-> SimIterations(iterations, it_bucket)]
      ELSE [eq_cache |-> [k \in DOMAIN cache \cup {key} |->
                            IF k = key THEN out.wins2 ELSE cache[k]],
            raised |-> FALSE, eq |-> out.wins2,
            sims |-> 1, sim_iterations |-> SimIterations(iterations, it_bucket)]

(***************************************************************************)
(* The simulator: calculate_equity_python                                  *)
(***************************************************************************)
\* Line 312 without its filter: the deck is the full deck
WholeDeck(my_cards, board) == Range(full_deck)

\* Lines 311-312: used = set(my_cards + list(board)), deck = the cards of
\* full_deck not in used.  The shuffle of line 326 puts the deck in any order.
UnseenDeck(my_cards, board) ==
  {c \in Range(full_deck) : c \notin (Range(my_cards) \cup Range(board))}

\* Line 318: keep = [cards3[j] for j in range(3) if j != drop_i]
Keep(cards3, drop_i) ==
  CASE drop_i = 0 -> <<cards3[2], cards3[3]>>
    [] drop_i = 1 -> <<cards3[1], cards3[3]>>
    [] drop_i = 2 -> <<cards3[1], cards3[2]>>

\* Line 320 with >= written for >
KeepIsBetterOrEqual(keep_score, best_score) ==
  best_score = <<>> \/ ~TupleLT(keep_score, best_score)

\* Line 320: best_score is None or score > best_score
KeepIsBetter(keep_score, best_score) ==
  best_score = <<>> \/ TupleLT(best_score, keep_score)

\* Lines 317-322 for one drop_i.  acc is the state of the loop before the
\* pass: best_score (<<>> for None), best_keep, and raised once eval7 has
\* let an exception out.
BestTwoStep(acc, cards3, current_board, drop_i) ==
  Only({IF acc.raised THEN acc
        ELSE IF keep_score = Raised
          THEN [raised |-> TRUE, best_score |-> acc.best_score,
                best_keep |-> acc.best_keep]
        ELSE IF KeepIsBetter(keep_score, acc.best_score)
          THEN [raised |-> FALSE, best_score |-> keep_score,
                best_keep |-> Keep(cards3, drop_i)]
        ELSE acc :
        keep_score \in {eval7(Keep(cards3, drop_i) \o current_board)}})

\* Lines 314-323
best_two_from_three(cards3, current_board) ==
  Only({BestTwoStep(a1, cards3, current_board, 2) :
        a1 \in {BestTwoStep(a0, cards3, current_board, 1) :
                a0 \in {BestTwoStep([raised |-> FALSE, best_score |-> <<>>,
                                     best_keep |-> <<>>],
                                    cards3, current_board, 0)}}})

\* Lines 349-355 with a tie credited like a win
CreditTieAsWin(s1, s2) == IF TupleLT(s1, s2) THEN 0 ELSE 2

\* Lines 349-355: what one iteration adds to wins, in half wins
Credit(s1, s2) ==
  IF TupleLT(s2, s1) THEN 2 ELSE IF s1 = s2 THEN 1 ELSE 0

\* Lines 343-347: the board runs out to 6 cards with the deck's next cards
Runout(board, leading) ==
  board \o SubSeq(leading, 4, 3 + (6 - Len(board)))

\* Line 312: len(deck)
DeckLen(my_cards, board) == Cardinality(UnseenDeck(my_cards, board))

\* Lines 325-355, one iteration.  leading holds the first cards of the
\* shuffled deck: opp3, then the runout.  d is the draw index of lines 327,
\* 331 and 346 when the iteration ends.
SimPassWith(my_cards, board, leading, mine, opp) ==
  IF mine.raised \/ opp.raised
    THEN [raised |-> TRUE, opp3 |-> SubSeq(leading, 1, 3), my2 |-> <<>>,
          opp2 |-> <<>>, sim_board |-> board, s1 |-> <<>>, s2 |-> <<>>,
          credit |-> 0, d |-> 3, deck_len |-> DeckLen(my_cards, board),
          exhausted |-> FALSE]
  ELSE Only({[raised |-> FALSE, opp3 |-> SubSeq(leading, 1, 3),
              my2 |-> mine.best_keep, opp2 |-> opp.best_keep,
              sim_board |-> Runout(board, leading),
              s1 |-> s1, s2 |-> s2, credit |-> Credit(s1, s2),
              d |-> 3 + (Len(Runout(board, leading)) - Len(board)),
              deck_len |-> DeckLen(my_cards, board), exhausted |-> FALSE] :
             s1 \in {eval7(mine.best_keep \o Runout(board, leading))},
             s2 \in {eval7(opp.best_keep \o Runout(board, leading))}})

SimPass(my_cards, board, leading) ==
  Only({SimPassWith(my_cards, board, leading, mine, opp) :
        mine \in {IF Len(my_cards) = 3 THEN best_two_from_three(my_cards, board)
                  ELSE [raised |-> FALSE, best_score |-> <<>>,
                        best_keep |-> my_cards]},
        opp \in {best_two_from_three(SubSeq(leading, 1, 3), board)}})

(***************************************************************************)
(* The discard selector: get_best_discard                                  *)
(***************************************************************************)
\* Line 280 with >= written for >
IsBetterOrEqual(eq, best_eq) == eq >= best_eq

\* Line 280: eq > best_eq
IsBetter(eq, best_eq) == eq > best_eq

\* Line 274
DiscardIters(board) == IF Len(board) >= 2 THEN 60 ELSE 50

\* Lines 277-278 for index i of the source (0..2)
KeptAfter(my_cards, i) ==
  SelectSeq([j \in 1..3 |-> IF j = i + 1 THEN <<>> ELSE my_cards[j]],
            LAMBDA c : c # <<>>)
BoardAfterDiscard(my_cards, board, i) == board \o <<my_cards[i + 1]>>

\* Lines 279-282 for index i.  acc is the state of the loop before the
\* step: the cache, best_idx, best_eq (in half wins of the bucket), the
\* equities obtained so far and the simulator calls.
DiscardStep(i, acc, my_cards, board, out) ==
  Only({[eq_cache |-> r.eq_cache,
         raised   |-> r.raised,
         best_idx |-> IF ~r.raised /\ IsBetter(r.eq, acc.best_eq) THEN i ELSE acc.best_idx,
         best_eq  |-> IF ~r.raised /\ IsBetter(r.eq, acc.best_eq) THEN r.eq ELSE acc.best_eq,
         eqs      |-> IF r.raised THEN acc.eqs ELSE Append(acc.eqs, r.eq),
         sims     |-> acc.sims + r.sims] :
        r \in {calculate_equity(acc.eq_cache, KeptAfter(my_cards, i),
                                BoardAfterDiscard(my_cards, board, i), 1,
                                DiscardIters(board), out)}})

\* Lines 276-282: for i in range(3); an exception ends the loop
RECURSIVE DiscardLoop(_, _, _, _, _)
DiscardLoop(i, acc, my_cards, board, outs) ==
  IF i > 2 \/ acc.raised THEN acc
  ELSE Only({DiscardLoop(i + 1, after, my_cards, board, outs) :
             after \in {DiscardStep(i, acc, my_cards, board, outs[i + 1])}})

\* Lines 268-284; best_eq = -1.0 is -2 * bucket half wins
get_best_discard(cache, my_cards, board, outs) ==
  DiscardLoop(0,
    [eq_cache |-> cache, raised |-> FALSE, best_idx |-> 0,
     best_eq |-> -2 * ItBucket(DiscardIters(board)), eqs |-> <<>>, sims |-> 0],
    my_cards, board, outs)

(***************************************************************************)
(* Engine hooks and get_action                                             *)
(***************************************************************************)
\* skeleton.states, imported at line 19
NUM_ROUNDS == 1000
STARTING_STACK == 400

\* Lines 194-205: legal_actions is modelled as the set of the action names
has_action(legal_actions, action_cls) == action_cls \in legal_actions

\* Lines 39, 47: {}
EmptyCache == [k \in {} |-> 0]

\* Line 46 without its test
ClearsCacheEveryRound(round_num) == TRUE

\* Line 46
ClearsCache(round_num) == round_num % 10 = 0

\* Lines 50-52: bankroll > rounds_remaining * 1.5 + 10.0, doubled
LockdownOf(round_num, bankroll) ==
  2 * bankroll > 3 * (NUM_ROUNDS - round_num + 1) + 20

\* Lines 44-52
handle_new_round(cache, round_num, bankroll) ==
  [eq_cache |-> IF ClearsCache(round_num) THEN EmptyCache ELSE cache,
   lockdown_mode |-> LockdownOf(round_num, bankroll)]

\* Lines 210-212
compute_pot(stacks) == (STARTING_STACK - stacks[1]) + (STARTING_STACK - stacks[2])

\* Lines 214-236
is_board_wet(board) ==
  IF Len(board) < 3 THEN FALSE
  ELSE LET ranks == SortDesc([i \in DOMAIN board |-> RANK_TO_INT[board[i][1]]])
           n == Len(ranks)
           asc == [i \in 1..n |-> ranks[n + 1 - i]]
       IN  \/ \E su \in {board[i][2] : i \in DOMAIN board} :
                Cardinality({i \in DOMAIN board : board[i][2] = su}) >= 3
           \/ \E i \in 1..(n - 2) : asc[i + 2] - asc[i] <= 4

\* Lines 238-263, for three cards
evaluate_preflop_points(cards) ==
  LET ranks == SortDesc([i \in DOMAIN cards |-> RANK_TO_INT[cards[i][1]]])
      suits == [i \in DOMAIN cards |-> cards[i][2]]
      paired == ranks[1] = ranks[2] \/ ranks[2] = ranks[3] \/ ranks[1] = ranks[3]
      gap1 == ranks[1] - ranks[2]
      gap2 == ranks[2] - ranks[3]
  IN  ranks[1] + ranks[2] + ranks[3]
      + (IF paired THEN 20 + (IF ranks[1] = ranks[3] THEN 30 ELSE 0) ELSE 0)
      + (IF suits[1] = suits[2] /\ suits[2] = suits[3] THEN 12
         ELSE IF suits[1] = suits[2] \/ suits[2] = suits[3] \/ suits[1] = suits[3]
           THEN 3 ELSE 0)
      + (IF gap1 = 1 /\ gap2 = 1 THEN 12
         ELSE IF gap1 = 1 \/ gap2 = 1 THEN 4 ELSE 0)

IntMax(a, b) == IF a >= b THEN a ELSE b
IntMin(a, b) == IF a <= b THEN a ELSE b

\* Lines 131-139 with min written for max at line 137
BaseItersCapped(pot, board) ==
  LET by_pot == IF pot >= 200 THEN 90 ELSE IF pot >= 80 THEN 70 ELSE 50
      by_turn == IF Len(board) >= 4 THEN IntMin(by_pot, 80) ELSE by_pot
  IN  IF Len(board) >= 5 THEN IntMax(by_turn, 110) ELSE by_turn

\* Lines 131-139: the iteration count asked for post-flop
BaseIters(pot, board) ==
  LET by_pot == IF pot >= 200 THEN 90 ELSE IF pot >= 80 THEN 70 ELSE 50
      by_turn == IF Len(board) >= 4 THEN IntMax(by_pot, 80) ELSE by_pot
  IN  IF Len(board) >= 5 THEN IntMax(by_turn, 110) ELSE by_turn

Action(type) == [type |-> type]
Returns(cache, action, sims) ==
  [eq_cache |-> cache, raised |-> FALSE, action |-> action, sims |-> sims,
   eqs |-> <<>>]

\* Lines 78-117.  rs is the round state: legal, street, my_cards, board,
\* my_pip, opp_pip, stacks, min_r, max_r.  trap is rng.random() < 0.10.
\* Lines 98 and 162 without min(max_r, ...)
RaiseToUncapped(min_r, max_r, target) == IntMax(min_r, target)

\* Lines 98 and 162: amt = max(min_r, min(max_r, target))
RaiseTo(min_r, max_r, target) == IntMax(min_r, IntMin(max_r, target))

PreFlop(cache, rs, trap) ==
  LET legal == rs.legal
      points == evaluate_preflop_points(rs.my_cards)
      pot == compute_pot(rs.stacks)
      target_raise_to == rs.opp_pip + pot
      amt == RaiseTo(rs.min_r, rs.max_r, target_raise_to)
      act ==
        IF points >= 35 THEN
          IF has_action(legal, "RaiseAction") THEN
            IF trap /\ has_action(legal, "CallAction") THEN Action("CallAction")
            ELSE IF points > 45 THEN [type |-> "RaiseAction", amount |-> rs.max_r]
            ELSE [type |-> "RaiseAction", amount |-> amt]
          ELSE IF has_action(legal, "CallAction") THEN Action("CallAction")
          ELSE IF has_action(legal, "CheckAction") THEN Action("CheckAction")
          ELSE Action("FoldAction")
        ELSE IF points >= 26 THEN
          IF has_action(legal, "CallAction") THEN Action("CallAction")
          ELSE IF has_action(legal, "CheckAction") THEN Action("CheckAction")
          ELSE Action("FoldAction")
        ELSE
          IF has_action(legal, "CheckAction") THEN Action("CheckAction")
          ELSE Action("FoldAction")
  IN  Returns(cache, act, 0)

\* Lines 119-189.  r is what calculate_equity gave at line 141; equity is
\* r.eq half wins of b iterations, so equity > 0.60 is 5 * eq > 6 * b and equity > 0.80 is
\* 5 * eq > 8 * b.  tie_calls decides the pot-odds comparison when the two
\* floating-point sides are equal as fractions.
PostFlopWith(rs, r, tie_calls) ==
  LET legal == rs.legal
      pot == compute_pot(rs.stacks)
      cost_to_call == IntMax(0, rs.opp_pip - rs.my_pip)
      is_wet == is_board_wet(rs.board)
      base_iters == BaseIters(pot, rs.board)
      b == ItBucket(base_iters)
      over60 == 5 * r.eq > 6 * b
      over80 == 5 * r.eq > 8 * b
      bet_size == IF is_wet THEN pot ELSE (pot * 55) \div 100
      call_to == IntMax(rs.my_pip, rs.opp_pip)
      raise_to == call_to + IntMax(1, bet_size)
      amt == RaiseTo(rs.min_r, rs.max_r, raise_to)
      pot_total_after_call == pot + cost_to_call
      total == IntMax(1, pot_total_after_call)
      \* equity >= cost_to_call / total + 0.05, times 20 * b * total
      lhs == 10 * r.eq * total
      rhs == 20 * b * cost_to_call + b * total
      odds_ok == lhs > rhs \/ (lhs = rhs /\ tie_calls)
      act ==
        IF over60 /\ has_action(legal, "RaiseAction") THEN
          IF over80 /\ is_wet THEN [type |-> "RaiseAction", amount |-> rs.max_r]
          ELSE [type |-> "RaiseAction", amount |-> amt]
        ELSE IF over60 /\ cost_to_call > 0 /\ has_action(legal, "CallAction")
          THEN Action("CallAction")
        ELSE IF over60 /\ has_action(legal, "CheckAction") THEN Action("CheckAction")
        ELSE IF cost_to_call > 0 /\ odds_ok /\ has_action(legal, "CallAction")
          THEN Action("CallAction")
        ELSE IF has_action(legal, "CheckAction") THEN Action("CheckAction")
        ELSE Action("FoldAction")
  IN  IF r.raised
        THEN [eq_cache |-> r.eq_cache, raised |-> TRUE, action |-> Action("none"),
              sims |-> r.sims, eqs |-> <<>>]
        ELSE [eq_cache |-> r.eq_cache, raised |-> FALSE, action |-> act,
              sims |-> r.sims, eqs |-> <<r.eq>>]

\* Lines 119-189 with the call of line 141; out is the simulator's outcome
PostFlop(cache, rs, out, tie_calls) ==
  Only({PostFlopWith(rs, r, tie_calls) :
        r \in {calculate_equity(cache, rs.my_cards, rs.board, rs.street,
                                BaseIters(compute_pot(rs.stacks), rs.board), out)}})

\* Lines 66-68 with the first test changed as a slip would change it: the
\* lockdown test comes before the discard test
DiscardAfterLockdown(legal, lockdown) ==
  has_action(legal, "DiscardAction") /\ ~lockdown

\* Lines 66-68: the discard comes before everything else
DiscardFirst(legal, lockdown) == has_action(legal, "DiscardAction")

\* Lines 60-189.  outs are the outcomes of up to three simulator calls.
get_action(cache, lockdown, rs, trap, tie_calls, outs) ==
  IF DiscardFirst(rs.legal, lockdown) THEN
    Only({[eq_cache |-> d.eq_cache, raised |-> d.raised,
           action |-> IF d.raised THEN Action("none")
                      ELSE [type |-> "DiscardAction", card |-> d.best_idx],
           sims |-> d.sims, eqs |-> d.eqs] :
          d \in {get_best_discard(cache, rs.my_cards, rs.board, outs)}})
  ELSE IF lockdown THEN
    Returns(cache,
      IF has_action(rs.legal, "CheckAction") THEN Action("CheckAction")
      ELSE IF has_action(rs.legal, "CallAction") THEN Action("CallAction")
      ELSE Action("FoldAction"), 0)
  ELSE IF rs.street = 0 THEN PreFlop(cache, rs, trap)
  ELSE PostFlop(cache, rs, outs[1], tie_calls)

(***************************************************************************)
(* The other players: python_skeleton, advanced_all_in, all_in_bot and     *)
(* all_in_bot_v2.  gs is the game state (round_num, bankroll); rs is the   *)
(* round state, as for rl_bot.                                             *)
(***************************************************************************)
\* skeleton.states, imported by all four players
BIG_BLIND == 2

\* {r: i for i, r in enumerate("23456789TJQKA")}
rank_map == [r \in DOMAIN RANK_TO_INT |-> RANK_TO_INT[r] - 2]

RanksOf(cards) == [i \in DOMAIN cards |-> rank_map[cards[i][1]]]
SuitsOf(cards) == [i \in DOMAIN cards |-> cards[i][2]]

RECURSIVE SumOf(_)
SumOf(seq) == IF seq = <<>> THEN 0 ELSE Head(seq) + SumOf(Tail(seq))

\* A dict built by counting a list is walked in the order of the first
\* occurrences of its keys
FirstAt(seq, v) == CHOOSE i \in DOMAIN seq : seq[i] = v /\ \A j \in 1..(i - 1) : seq[j] # v
KeysWith(seq, k) == {v \in Range(seq) : Counter(seq)[v] = k}
FirstKey(seq, keys) == CHOOSE v \in keys : \A w \in keys : FirstAt(seq, v) <= FirstAt(seq, w)
LastKey(seq, keys) == CHOOSE v \in keys : \A w \in keys : FirstAt(seq, v) >= FirstAt(seq, w)

\* python_skeleton lines 78-85 (the same in the three other players):
\* bankroll > rounds_remaining * 1.5 + 2, doubled
SecureWin(gs) == 2 * gs.bankroll > 3 * (NUM_ROUNDS - gs.round_num + 1) + 4

\* The two lines after the test as rl_bot has them: check, else call, else fold
LockdownActionCalls(legal) ==
  IF has_action(legal, "CheckAction") THEN Action("CheckAction")
  ELSE IF has_action(legal, "CallAction") THEN Action("CallAction")
  ELSE Action("FoldAction")

\* python_skeleton lines 87-89 (the same in the three other players)
LockdownAction(legal) ==
  IF has_action(legal, "CheckAction") THEN Action("CheckAction")
  ELSE Action("FoldAction")

\* python_skeleton lines 43-72, advanced_all_in lines 135-159 (penalty 20)
\* and all_in_bot_v2 lines 148-172: the first card of the least danger score
DangerDiscard(my_cards, board, penalty) ==
  LET flush_suit == IF Len(board) = 2 /\ board[1][2] = board[2][2]
                      THEN board[1][2] ELSE "none"
      danger_score == [i \in DOMAIN my_cards |->
                         rank_map[my_cards[i][1]]
                         + (IF my_cards[i][2] = flush_suit THEN penalty ELSE 0)]
      best == IF my_cards = <<>> THEN 1
              ELSE CHOOSE i \in DOMAIN my_cards :
                     /\ \A j \in DOMAIN my_cards : danger_score[i] <= danger_score[j]
                     /\ \A j \in 1..(i - 1) : danger_score[j] > danger_score[i]
  IN  [type |-> "DiscardAction", card |-> best - 1]

\* python_skeleton lines 134-181, advanced_all_in lines 161-196
is_good_preflop(cards) ==
  LET ranks == RanksOf(cards)
      pairs == KeysWith(ranks, 2)
      is_trips == KeysWith(ranks, 3) # {}
  IN  IF is_trips THEN TRUE
      ELSE IF pairs # {} THEN LastKey(ranks, pairs) > 2
      ELSE IF Cardinality(Range(SuitsOf(cards))) = 1
        THEN SumOf([i \in DOMAIN ranks |-> ranks[i] + 2]) >= 25
      ELSE FALSE

\* python_skeleton lines 128-132
CheckOrFold(legal) ==
  IF has_action(legal, "CheckAction") THEN Action("CheckAction")
  ELSE Action("FoldAction")

\* python_skeleton lines 32-132
skeleton_get_action(gs, rs) ==
  LET legal == rs.legal
  IN  IF has_action(legal, "DiscardAction") THEN DangerDiscard(rs.my_cards, rs.board, 100)
      ELSE IF SecureWin(gs) THEN LockdownAction(legal)
      ELSE IF rs.street = 0 /\ is_good_preflop(rs.my_cards) THEN
        IF has_action(legal, "RaiseAction")
          THEN [type |-> "RaiseAction", amount |-> rs.max_r]
        ELSE IF has_action(legal, "CallAction") THEN Action("CallAction")
        ELSE CheckOrFold(legal)
      ELSE IF rs.street = 0 THEN
        IF has_action(legal, "CheckAction") THEN Action("CheckAction")
        ELSE IF has_action(legal, "CallAction") /\ rs.opp_pip <= BIG_BLIND
          THEN Action("CallAction")
        ELSE Action("FoldAction")
      ELSE CheckOrFold(legal)

\* advanced_all_in lines 37-133.  bully is self.is_bully_mode; shoved tells
\* whether the call set self.did_shove_this_round (lines 84, 107).
advanced_get_action(gs, rs, bully) ==
  LET legal == rs.legal
      is_strong == is_good_preflop(rs.my_cards)
      Plain(a) == [action |-> a, shoved |-> FALSE]
      Shove == [action |-> [type |-> "RaiseAction", amount |-> rs.max_r],
                shoved |-> TRUE]
      post_flop ==
        IF is_strong /\ has_action(legal, "RaiseAction")
          THEN Plain([type |-> "RaiseAction", amount |-> rs.max_r])
        ELSE Plain(CheckOrFold(legal))
  IN  IF has_action(legal, "DiscardAction")
        THEN Plain(DangerDiscard(rs.my_cards, rs.board, 20))
      ELSE IF SecureWin(gs) THEN Plain(LockdownAction(legal))
      ELSE IF rs.street = 0 /\ bully THEN
        IF rs.opp_pip > 2 THEN
          IF is_strong THEN
            IF has_action(legal, "RaiseAction") THEN Shove
            ELSE Plain(Action("CallAction"))
          ELSE Plain(Action("FoldAction"))
        ELSE IF has_action(legal, "RaiseAction")
          THEN Plain([type |-> "RaiseAction", amount |-> rs.min_r])
        ELSE IF has_action(legal, "CheckAction") THEN Plain(Action("CheckAction"))
        ELSE Plain(Action("CallAction"))
      ELSE IF rs.street = 0 /\ is_strong THEN
        IF has_action(legal, "RaiseAction") THEN Shove
        ELSE IF has_action(legal, "CallAction") THEN Plain(Action("CallAction"))
        ELSE IF has_action(legal, "CheckAction") THEN Plain(Action("CheckAction"))
        ELSE post_flop
      ELSE IF rs.street = 0 THEN
        IF has_action(legal, "CheckAction") THEN Plain(Action("CheckAction"))
        ELSE IF has_action(legal, "CallAction") /\ rs.opp_pip <= BIG_BLIND
          THEN Plain(Action("CallAction"))
        ELSE Plain(Action("FoldAction"))
      ELSE post_flop

\* advanced_all_in lines 22-35: the two fields after a round that ended with
\* my_delta, as <<consecutive_uncalled_shoves, is_bully_mode>>
bully_threshold == 10
\* lines 22-35 without line 32: a called shove leaves the mode as it is
RoundOverKeepsMode(count, bully, did_shove, my_delta) ==
  LET stole == my_delta > 0 /\ my_delta < 10
      count1 == IF did_shove THEN (IF stole THEN count + 1 ELSE 0) ELSE count
  IN  <<count1, IF count1 >= bully_threshold THEN TRUE ELSE bully>>

\* lines 22-35 without the test of line 25: every round counts as a shove
RoundOverEveryRound(count, bully, did_shove, my_delta) ==
  LET stole == my_delta > 0 /\ my_delta < 10
      count1 == IF stole THEN count + 1 ELSE 0
      bully1 == IF ~stole THEN FALSE ELSE bully
  IN  <<count1, IF count1 >= bully_threshold THEN TRUE ELSE bully1>>

advanced_handle_round_over(count, bully, did_shove, my_delta) ==
  LET stole == my_delta > 0 /\ my_delta < 10
      count1 == IF did_shove THEN (IF stole THEN count + 1 ELSE 0) ELSE count
      bully1 == IF did_shove /\ ~stole THEN FALSE ELSE bully
  IN  <<count1, IF count1 >= bully_threshold THEN TRUE ELSE bully1>>

\* all_in_bot lines 222-259
allin_get_discard_action(my_cards, board) ==
  LET board_suits == SuitsOf(board)
      doubled == {s \in Range(board_suits) : Counter(board_suits)[s] >= 2}
      flush_suit == IF Len(board_suits) >= 2 /\ doubled # {}
                      THEN FirstKey(board_suits, doubled) ELSE "none"
      ranks == RanksOf(my_cards)
      value == [i \in DOMAIN my_cards |->
                  ranks[i]
                  + (IF my_cards[i][2] = flush_suit THEN 15 ELSE 0)
                  + (IF \E j \in DOMAIN my_cards : j # i /\ ranks[j] = ranks[i]
                       THEN 20 ELSE 0)]
      best == IF my_cards = <<>> THEN 1
              ELSE CHOOSE i \in DOMAIN my_cards :
                     /\ \A j \in DOMAIN my_cards : value[i] <= value[j]
                     /\ \A j \in 1..(i - 1) : value[j] > value[i]
  IN  [type |-> "DiscardAction", card |-> best - 1]

\* all_in_bot lines 261-300
allin_get_preflop_tier(cards) ==
  LET ranks == RanksOf(cards)
      pairs == KeysWith(ranks, 2)
      r == FirstKey(ranks, pairs)
  IN  IF KeysWith(ranks, 3) # {} THEN 1
      ELSE IF pairs # {} THEN (IF r >= 8 THEN 1 ELSE IF r >= 3 THEN 2 ELSE 3)
      ELSE IF /\ Cardinality(Range(SuitsOf(cards))) = 1
              /\ Cardinality({i \in DOMAIN ranks : ranks[i] >= 9}) >= 2 THEN 2
      ELSE IF Cardinality({i \in DOMAIN ranks : ranks[i] >= 11}) >= 2 THEN 2
      ELSE 3

\* all_in_bot lines 80-92 and 123-138: trips, or a pair of queens or better
QueensOrBetter(cards) ==
  LET ranks == RanksOf(cards)
      pairs == KeysWith(ranks, 2)
  IN  KeysWith(ranks, 3) # {} \/ (pairs # {} /\ LastKey(ranks, pairs) >= 10)

\* all_in_bot lines 302-378 and all_in_bot_v2 lines 223-298, which differ in
\* two constants only.  Strengths are in units of 1/1200: 0.85 is 1020, and
\* 0.55 + (pair_rank / 12) * 0.15 is 660 + 15 * pair_rank.
PostflopStrength(my_cards, board, top_base, under_base) ==
  LET all_cards == my_cards \o board
      ranks == RanksOf(all_cards)
      suits == SuitsOf(all_cards)
      rank_counts == Counter(ranks)
      suit_counts == Counter(suits)
      has_trips == \E r \in DOMAIN rank_counts : rank_counts[r] >= 3
      has_pair == \E r \in DOMAIN rank_counts : rank_counts[r] = 2
      held == Range(ranks)
      pairs == KeysWith(ranks, 2)
      pair_count == Cardinality(pairs)
      pair_rank == Only(pairs)
      my_ranks == Range(RanksOf(my_cards))
      max_board == IF board = <<>> THEN 0 ELSE SetMax(Range(RanksOf(board)))
  IN  IF \E s \in DOMAIN suit_counts : suit_counts[s] >= 5 THEN 1020
      ELSE IF \E r \in DOMAIN rank_counts : rank_counts[r] = 4 THEN 1140
      ELSE IF has_trips /\ has_pair THEN 1080
      ELSE IF has_trips THEN 900
      ELSE IF \E lo \in held :
                /\ (lo + 4) \in held
                /\ Cardinality({r \in held : r >= lo /\ r <= lo + 4}) = 5 THEN 960
      ELSE IF {0, 1, 2, 3, 12} \subseteq held THEN 960
      ELSE IF pair_count >= 2 THEN 720
      ELSE IF pair_count = 1 THEN
        IF pair_rank \in my_ranks THEN
          IF pair_rank > max_board THEN 660 + 15 * pair_rank
          ELSE IF pair_rank = max_board THEN top_base + 10 * pair_rank
          ELSE under_base + 10 * pair_rank
        ELSE 300
      ELSE 180 + 10 * SetMax(my_ranks)

\* all_in_bot lines 302-378
evaluate_postflop_strength(my_cards, board) ==
  PostflopStrength(my_cards, board, 540, 360)

\* all_in_bot_v2 lines 223-298
get_postflop_strength(my_cards, board) ==
  PostflopStrength(my_cards, board, 600, 420)

\* all_in_bot lines 380-404
has_strong_draw(my_cards, board) ==
  LET all_cards == my_cards \o board
      suit_counts == Counter(SuitsOf(all_cards))
      held == Range(RanksOf(all_cards))
  IN  \/ \E s \in DOMAIN suit_counts : suit_counts[s] = 4
      \/ \E lo \in held : {lo + 1, lo + 2, lo + 3} \subseteq held

\* int(pot_total * 0.7) at all_in_bot line 201: the double nearest to 0.7 is
\* below 0.7, and for these pot totals up to 800 the rounded product falls
\* just below the integer 7 * pot_total / 10
SeventyFallsShort ==
  {90, 170, 180, 330, 340, 350, 360, 650, 660, 670, 680, 690, 700, 710, 720, 730}
IntOfSeventy(pot_total) ==
  (7 * pot_total) \div 10 - (IF pot_total \in SeventyFallsShort THEN 1 ELSE 0)

\* all_in_bot line 212: hand_strength >= 0.50
BetsFrom50(hand_strength) == hand_strength >= 600

\* all_in_bot lines 24-220.  tie_calls decides the comparison of line 187
\* when its two floating-point sides are equal as fractions.
allin_get_action(gs, rs, tie_calls) ==
  LET legal == rs.legal
      Raise(amount) == [type |-> "RaiseAction", amount |-> amount]
      is_caution_mode == gs.bankroll >= 150
      my_stack == rs.stacks[1]
      opp_stack == rs.stacks[2]
      continue_cost == rs.opp_pip - rs.my_pip
      pot_total == rs.my_pip + rs.opp_pip
      is_opponent_allin == opp_stack = 0
      is_huge_bet == 2 * continue_cost > my_stack
      hand_tier == allin_get_preflop_tier(rs.my_cards)
      hand_strength == evaluate_postflop_strength(rs.my_cards, rs.board)
      min_bet == IntMax(rs.min_r, 6)
      odds_ok == \/ hand_strength * (pot_total + continue_cost) > 1200 * continue_cost
                 \/ /\ hand_strength * (pot_total + continue_cost) = 1200 * continue_cost
                    /\ tie_calls
      post_flop ==
        IF has_action(legal, "CallAction") /\ continue_cost > 0 THEN
          IF is_opponent_allin \/ is_huge_bet THEN
            IF hand_strength >= 840 THEN Action("CallAction") ELSE Action("FoldAction")
          ELSE IF odds_ok THEN Action("CallAction")
          ELSE Action("FoldAction")
        ELSE IF has_action(legal, "RaiseAction") /\ hand_strength >= 780
          THEN Raise(IntMin(IntMax(min_bet, IntOfSeventy(pot_total)), rs.max_r))
        ELSE IF has_action(legal, "RaiseAction")
                /\ has_strong_draw(rs.my_cards, rs.board)
          THEN Raise(IntMin(IntMax(min_bet, pot_total \div 2), rs.max_r))
        ELSE IF has_action(legal, "RaiseAction") /\ BetsFrom50(hand_strength)
          THEN Raise(IntMin(IntMax(min_bet, pot_total \div 2), rs.max_r))
        ELSE CheckOrFold(legal)
  IN  IF has_action(legal, "DiscardAction")
        THEN allin_get_discard_action(rs.my_cards, rs.board)
      ELSE IF SecureWin(gs) THEN LockdownAction(legal)
      ELSE IF rs.street # 0 THEN post_flop
      ELSE IF is_opponent_allin \/ is_huge_bet THEN
        IF /\ hand_tier = 1
           /\ QueensOrBetter(rs.my_cards)
           /\ has_action(legal, "CallAction") THEN Action("CallAction")
        ELSE CheckOrFold(legal)
      ELSE IF is_caution_mode THEN
        IF hand_tier = 1 /\ has_action(legal, "RaiseAction")
          THEN Raise(IntMin(rs.min_r + BIG_BLIND * 3, rs.max_r))
        ELSE IF hand_tier = 2 /\ has_action(legal, "RaiseAction")
          THEN Raise(rs.min_r)
        ELSE IF hand_tier \in {1, 2} /\ has_action(legal, "CallAction")
          THEN Action("CallAction")
        ELSE CheckOrFold(legal)
      ELSE IF hand_tier = 1 THEN
        IF has_action(legal, "RaiseAction") THEN
          IF QueensOrBetter(rs.my_cards) THEN Raise(rs.max_r)
          ELSE Raise(IntMin(rs.min_r + BIG_BLIND * 4, rs.max_r))
        ELSE IF has_action(legal, "CallAction") THEN Action("CallAction")
        ELSE IF has_action(legal, "CheckAction") THEN Action("CheckAction")
        ELSE post_flop
      ELSE IF hand_tier = 2 THEN
        IF has_action(legal, "RaiseAction")
          THEN Raise(IntMin(rs.min_r + BIG_BLIND * 2, rs.max_r))
        ELSE IF has_action(legal, "CallAction") THEN Action("CallAction")
        ELSE IF has_action(legal, "CheckAction") THEN Action("CheckAction")
        ELSE post_flop
      ELSE IF has_action(legal, "CheckAction") THEN Action("CheckAction")
      ELSE IF has_action(legal, "CallAction") /\ continue_cost <= BIG_BLIND
        THEN Action("CallAction")
      ELSE Action("FoldAction")

\* all_in_bot_v2 lines 174-221
v2_get_preflop_tier(cards) ==
  LET ranks == RanksOf(cards)
      pairs == KeysWith(ranks, 2)
      is_pair == pairs # {}
      pair_rank == IF is_pair THEN LastKey(ranks, pairs) ELSE -1
  IN  IF KeysWith(ranks, 3) # {} THEN 1
      ELSE IF is_pair /\ pair_rank >= 10 THEN 1
      ELSE IF is_pair /\ pair_rank >= 8 THEN 2
      ELSE IF is_pair /\ pair_rank >= 3 THEN 3
      ELSE IF /\ Cardinality(Range(SuitsOf(cards))) = 1
              /\ SumOf([i \in DOMAIN ranks |-> ranks[i] + 2]) >= 25 THEN 3
      ELSE 0

\* all_in_bot_v2 lines 30-146
v2_get_action(gs, rs) ==
  LET legal == rs.legal
      Raise(amount) == [type |-> "RaiseAction", amount |-> amount]
      continue_cost == rs.opp_pip - rs.my_pip
      pot_total == rs.my_pip + rs.opp_pip
      my_stack == rs.stacks[1]
      hand_tier == v2_get_preflop_tier(rs.my_cards)
      hand_strength == get_postflop_strength(rs.my_cards, rs.board)
      post_flop ==
        IF continue_cost > 0 THEN
          IF /\ hand_strength >= 600
             /\ 2 * continue_cost <= my_stack
             /\ has_action(legal, "CallAction") THEN Action("CallAction")
          ELSE Action("FoldAction")
        ELSE IF has_action(legal, "CheckAction") THEN
          IF hand_strength >= 540 /\ has_action(legal, "RaiseAction")
            THEN Raise(IntMin(IntMax(rs.min_r, IntMax(4, pot_total \div 2)), rs.max_r))
          ELSE Action("CheckAction")
        ELSE Action("FoldAction")
  IN  IF has_action(legal, "DiscardAction")
        THEN DangerDiscard(rs.my_cards, rs.board, 100)
      ELSE IF SecureWin(gs) THEN LockdownAction(legal)
      ELSE IF rs.street # 0 THEN post_flop
      ELSE IF hand_tier > 0 THEN
        IF has_action(legal, "RaiseAction") THEN
          IF hand_tier = 1 THEN Raise(rs.max_r)
          ELSE IF hand_tier = 2 THEN
            IF continue_cost > 10 THEN Raise(rs.max_r)
            ELSE Raise(IntMin(IntMax(rs.min_r, BIG_BLIND * 6), rs.max_r))
          ELSE IF continue_cost > 15 THEN
            IF has_action(legal, "CallAction") THEN Action("CallAction")
            ELSE Action("FoldAction")
          ELSE Raise(IntMin(IntMax(rs.min_r, BIG_BLIND * 5), rs.max_r))
        ELSE IF has_action(legal, "CallAction") THEN Action("CallAction")
        ELSE IF has_action(legal, "CheckAction") THEN Action("CheckAction")
        ELSE post_flop
      ELSE IF has_action(legal, "CheckAction") THEN Action("CheckAction")
      ELSE IF has_action(legal, "CallAction") /\ continue_cost <= 15
        THEN Action("CallAction")
      ELSE Action("FoldAction")

(***************************************************************************)
(* State                                                                   *)
(***************************************************************************)
VARIABLES
  pool,          \* the cards handed to eval5 / eval7
  pool2,         \* a second 5-card hand, evaluated beside pool
  score,         \* the value returned for pool (<<>>: not evaluated yet)
  score2,        \* the value returned for pool2
  eq_cache,      \* self.eq_cache: key -> half wins of the key's bucket
  lockdown_mode, \* self.lockdown_mode
  call,          \* the last operation invoked on the Player, with its arguments
  ret,           \* what that operation returned
  sim_calls,     \* calls of calculate_equity_python made by that operation
  sim_iterations, \* the iteration count handed to calculate_equity_python by
                 \* that operation (0: the simulator was not called)
  eqs,           \* the values calculate_equity returned during that operation
  returned,      \* history: for the own-card set, board sequence, street and
                 \* bucket of every calculate_equity call since the cache was
                 \* last cleared, the value the first such call returned
  sim,           \* the loop of calculate_equity_python: passes made, wins
                 \* (in half wins) and the cards of the last pass
  consecutive_uncalled_shoves, \* advanced_all_in: the field of that name
  is_bully_mode,               \* advanced_all_in: the field of that name
  did_shove_this_round         \* advanced_all_in: the field of that name

evalVars == <<pool, pool2, score, score2>>
playerVars ==
  <<eq_cache, lockdown_mode, call, ret, sim_calls, sim_iterations, eqs, returned, sim>>
bullyVars == <<consecutive_uncalled_shoves, is_bully_mode, did_shove_this_round>>
vars == <<pool, pool2, score, score2,
          eq_cache, lockdown_mode, call, ret, sim_calls, sim_iterations, eqs,
          returned, sim,
          consecutive_uncalled_shoves, is_bully_mode, did_shove_this_round>>

NoCall == [op |-> "none"]
\* calculate_equity_python before its first pass (line 309: wins = 0.0)
NoPass == [raised |-> FALSE]
NoSim == [passes |-> 0, wins2 |-> 0, won |-> 0, tied |-> 0, last |-> NoPass]
NoReturn == [type |-> "none"]
Exception == [type |-> "Exception"]

\* advanced_all_in/player.py lines 12-17: that Player right after __init__
BullyIdle ==
  /\ consecutive_uncalled_shoves = 0
  /\ is_bully_mode = FALSE
  /\ did_shove_this_round = FALSE

\* The Player right after __init__ (lines 36-39), no operation invoked yet
PlayerIdle ==
  /\ eq_cache = EmptyCache
  /\ lockdown_mode = FALSE
  /\ call = NoCall
  /\ ret = NoReturn
  /\ sim_calls = 0
  /\ sim_iterations = 0
  /\ eqs = <<>>
  /\ returned = EmptyCache
  /\ sim = NoSim
  /\ BullyIdle

EvalIdle ==
  /\ pool = <<>>
  /\ pool2 = <<>>
  /\ score = <<>>
  /\ score2 = <<>>

(***************************************************************************)
(* The hand evaluator as a system: a pool of cards is drawn, then eval7    *)
(* (any pool) or eval5 (a pair of 5-card hands) is applied.                *)
(***************************************************************************)
\* Wheel and six-high straight in clubs, all four deuces and two treys:
\* the shortest deck in which every hand category occurs.
SmallDeckList ==
  << <<"A","c">>, <<"2","c">>, <<"3","c">>, <<"4","c">>, <<"5","c">>,
     <<"6","c">>, <<"2","d">>, <<"2","h">>, <<"2","s">>, <<"3","d">>,
     <<"7","d">>, <<"3","h">>, <<"K","s">> >>

SmallDeck == 1..SmallDeckSize

\* The cards at the chosen deck positions, in ascending position
RECURSIVE CardsAt(_)
CardsAt(S) ==
  IF S = {} THEN <<>>
  ELSE LET i == CHOOSE x \in S : \A y \in S : x <= y
       IN  <<SmallDeckList[i]>> \o CardsAt(S \ {i})

Pools == {CardsAt(S) : S \in {T \in SUBSET SmallDeck : Cardinality(T) \in 5..8}}
Hands5 == {p \in Pools : Len(p) = 5}

\* The same five cards in another order
Scramble(h) == <<h[3], h[5], h[1], h[4], h[2]>>

EvalInit ==
  /\ pool \in Pools
  /\ pool2 = <<>>
  /\ score = <<>>
  /\ score2 = <<>>
  /\ PlayerIdle

\* evaluate_hand: eval7 on the pool
CallEval7 ==
  /\ score = <<>>
  /\ score' = eval7(pool)
  /\ UNCHANGED <<pool, pool2, score2>>
  /\ UNCHANGED bullyVars
  /\ UNCHANGED playerVars

\* eval5 on the pool and on a second hand, whose cards come in another order
\* eval5 over the 5-card inputs of the model, evaluated once per input
Eval5OfInput == [h \in Hands5 \cup {Scramble(g) : g \in Hands5} |-> eval5(h)]

CallEval5Pair ==
  /\ score = <<>>
  /\ Len(pool) = 5
  /\ \E h \in Hands5 : pool2' = Scramble(h)
  /\ score' = Eval5OfInput[pool]
  /\ score2' = Eval5OfInput[pool2']
  /\ UNCHANGED pool
  /\ UNCHANGED bullyVars
  /\ UNCHANGED playerVars

EvalNext == CallEval7 \/ CallEval5Pair

SpecEval == EvalInit /\ [][EvalNext]_vars

(***************************************************************************)
(* The evaluators handed a wrong number of cards: eval7 gets fewer than 5  *)
(* or more than 8, eval5 gets other than 5.                                *)
(***************************************************************************)
WrongPools ==
  {CardsAt(S) : S \in {T \in SUBSET SmallDeck : Cardinality(T) \in {3, 4, 6, 9}}}

WrongCountInit ==
  /\ pool \in WrongPools
  /\ pool2 = <<>>
  /\ score = <<>>
  /\ score2 = <<>>
  /\ PlayerIdle

\* eval7 on a pool of fewer than 5 or more than 8 cards
CallEval7WrongCount ==
  /\ Len(pool) < 5 \/ Len(pool) > 8
  /\ CallEval7

\* eval5 on a pool of other than 5 cards
CallEval5WrongCount ==
  /\ score = <<>>
  /\ Len(pool) # 5
  /\ score' = eval5(pool)
  /\ call' = [op |-> "eval5"]
  /\ UNCHANGED <<pool, pool2, score2>>
  /\ UNCHANGED bullyVars
  /\ UNCHANGED <<eq_cache, lockdown_mode, ret, sim_calls, sim_iterations, eqs, returned, sim>>

WrongCountNext == CallEval7WrongCount \/ CallEval5WrongCount

SpecWrongCount == WrongCountInit /\ [][WrongCountNext]_vars

(***************************************************************************)
(* The Player as a system: the engine and the decision policy invoke its   *)
(* operations in any order, with inputs drawn from the sets below.         *)
(***************************************************************************)
X1 == <<"3", "c">>
X2 == <<"3", "d">>
X3 == <<"4", "c">>
X4 == <<"2", "h">>
X5 == <<"K", "d">>

\* the three private cards before the discard
Hands3 == {<<X1, X2, X3>>}
\* the two private cards after the discard of X3, in both orders
Hands2 == {<<X1, X2>>, <<X2, X1>>}
\* the board when the discard is asked for: two cards, or one card
FlopBoards == {<<X4, X5>>}
EarlyBoards == {<<X4>>}
\* the board after the discard of X3, in two orders
LaterBoards == {<<X4, X5, X3>>, <<X5, X4, X3>>}
\* the street get_best_discard passes at line 279
Streets == {1}
\* two iteration counts of one bucket
Iterations == {50, 60}

\* the half-win counts the model lets a run of `iterations` produce: every
\* run lost, or every run won
HalfWins(iterations) == {0, 2 * iterations}

\* SimMayRaise for the decks and boards the simulator gets here, computed
\* once for each
SimInputs ==
  {<<Range(h) \cup Range(b), b>> : h \in Hands2, b \in LaterBoards}
    \cup {<<Range(h) \cup Range(b), BoardAfterDiscard(h, b, i)>> :
            h \in Hands3, b \in FlopBoards \cup EarlyBoards, i \in 0..2}
OppMayRaiseOf == [x \in SimInputs |-> OppMayRaise(x[1], x[2])]

SimMayRaise(my_cards, board) ==
  \/ OwnMayRaise(my_cards, board)
  \/ OppMayRaiseOf[<<Range(my_cards) \cup Range(board), board>>]

\* the outcomes of the simulator for one call of calculate_equity
OutcomesFor(my_cards, board, iterations) ==
  SimOutcomes(SimMayRaise(my_cards, board), HalfWins(ItBucket(iterations)))

\* the outcomes of the three calls of get_best_discard
DiscardOutcomes(my_cards, board) ==
  {<<o1, o2, o3>> :
     o1 \in OutcomesFor(KeptAfter(my_cards, 0),
                        BoardAfterDiscard(my_cards, board, 0), DiscardIters(board)),
     o2 \in OutcomesFor(KeptAfter(my_cards, 1),
                        BoardAfterDiscard(my_cards, board, 1), DiscardIters(board)),
     o3 \in OutcomesFor(KeptAfter(my_cards, 2),
                        BoardAfterDiscard(my_cards, board, 2), DiscardIters(board))}

\* the round states get_action is called with
DiscardStates(boards) ==
  {[legal |-> {"DiscardAction"}, street |-> st, my_cards |-> h, board |-> b,
    my_pip |-> 0, opp_pip |-> 0, stacks |-> <<398, 398>>,
    min_r |-> 2, max_r |-> 398] :
     st \in {0, 2}, h \in Hands3, b \in boards}
PreFlopStates ==
  {[legal |-> l, street |-> 0, my_cards |-> h, board |-> <<>>,
    my_pip |-> 1, opp_pip |-> 2, stacks |-> <<399, 398>>,
    min_r |-> 4, max_r |-> 400] :
     l \in {{"FoldAction", "CallAction", "RaiseAction"}, {"FoldAction", "CallAction"}},
     h \in Hands3}
PostFlopStates ==
  {[legal |-> l, street |-> 3, my_cards |-> <<X1, X2>>, board |-> <<X4, X5, X3>>,
    my_pip |-> 0, opp_pip |-> 10, stacks |-> <<390, 380>>,
    min_r |-> 22, max_r |-> 390] :
     l \in {{"FoldAction", "CallAction", "RaiseAction"}, {"CheckAction"}}}

NoOutcome == [raised |-> FALSE, wins2 |-> 0]

\* the outcomes of the simulator calls one get_action can make
ActionOutcomes(rs, lockdown) ==
  IF "DiscardAction" \in rs.legal THEN DiscardOutcomes(rs.my_cards, rs.board)
  ELSE IF lockdown \/ rs.street = 0 THEN {<<NoOutcome>>}
  ELSE {<<o>> : o \in OutcomesFor(rs.my_cards, rs.board,
                                  BaseIters(compute_pot(rs.stacks), rs.board))}
\* rng.random() < 0.10 at line 85 is drawn pre-flop only
TrapChoices(rs, lockdown) ==
  IF "DiscardAction" \notin rs.legal /\ ~lockdown /\ rs.street = 0
    THEN BOOLEAN ELSE {FALSE}
TieChoices(rs, lockdown) ==
  IF "DiscardAction" \notin rs.legal /\ ~lockdown /\ rs.street # 0
    THEN BOOLEAN ELSE {FALSE}

\* The history of returned estimates.  The bucket of a request, as the
\* specification words it: at most 45 -> 40, 46..70 -> 60, 71..100 -> 90,
\* above 100 -> 120.
BucketOf(n) ==
  CASE n <= 45 -> 40
    [] n >= 46 /\ n <= 70 -> 60
    [] n >= 71 /\ n <= 100 -> 90
    [] n > 100 -> 120

Request(my_cards, board, street, iterations) ==
  [own |-> Range(my_cards), board |-> board, street |-> street,
   bucket |-> BucketOf(iterations)]

Note(hist, request, eq) ==
  IF request \in DOMAIN hist THEN hist
  ELSE [q \in DOMAIN hist \cup {request} |-> IF q = request THEN eq ELSE hist[q]]

RECURSIVE NoteDiscard(_, _, _, _, _)
NoteDiscard(hist, my_cards, board, values, i) ==
  IF i >= Len(values) THEN hist
  ELSE NoteDiscard(
         Note(hist, Request(KeptAfter(my_cards, i), BoardAfterDiscard(my_cards, board, i),
                            1, DiscardIters(board)), values[i + 1]),
         my_cards, board, values, i + 1)

PlayerInit == PlayerIdle /\ EvalIdle

\* the decision policy asks for an equity
CalculateEquity ==
  \E my_cards \in Hands2, board \in LaterBoards, street \in Streets,
     iterations \in Iterations :
    \E out \in OutcomesFor(my_cards, board, iterations) :
      \E r \in {calculate_equity(eq_cache, my_cards, board, street, iterations, out)} :
          /\ eq_cache' = r.eq_cache
          /\ call' = [op |-> "calculate_equity", my_cards |-> my_cards,
                      board |-> board, street |-> street, iterations |-> iterations]
          /\ ret' = IF r.raised THEN Exception ELSE [type |-> "equity", eq |-> r.eq]
          /\ sim_calls' = r.sims
          /\ sim_iterations' = r.sim_iterations
          /\ eqs' = IF r.raised THEN <<>> ELSE <<r.eq>>
          /\ returned' = IF r.raised THEN returned
                         ELSE Note(returned, Request(my_cards, board, street, iterations), r.eq)
          /\ UNCHANGED bullyVars
          /\ UNCHANGED <<lockdown_mode, pool, pool2, score, score2, sim>>

\* the discard selector is asked for an index
GetBestDiscard ==
  \E my_cards \in Hands3, board \in FlopBoards :
    \E outs \in DiscardOutcomes(my_cards, board) :
      \E d \in {get_best_discard(eq_cache, my_cards, board, outs)} :
          /\ eq_cache' = d.eq_cache
          /\ call' = [op |-> "get_best_discard", my_cards |-> my_cards, board |-> board]
          /\ ret' = IF d.raised THEN Exception
                    ELSE [type |-> "DiscardAction", card |-> d.best_idx]
          /\ sim_calls' = d.sims
          /\ sim_iterations' = IF d.sims = 0 THEN 0 ELSE ItBucket(DiscardIters(board))
          /\ eqs' = d.eqs
          /\ returned' = NoteDiscard(returned, my_cards, board, d.eqs, 0)
          /\ UNCHANGED bullyVars
          /\ UNCHANGED <<lockdown_mode, pool, pool2, score, score2, sim>>

\* the engine asks for an action in one of the given round states
GetActionIn(states) ==
  \E rs \in states :
    \E trap \in TrapChoices(rs, lockdown_mode), tie_calls \in TieChoices(rs, lockdown_mode),
       outs \in ActionOutcomes(rs, lockdown_mode) :
      \E a \in {get_action(eq_cache, lockdown_mode, rs, trap, tie_calls, outs)} :
          /\ eq_cache' = a.eq_cache
          /\ call' = [op |-> "get_action", rs |-> rs, lockdown |-> lockdown_mode]
          /\ ret' = IF a.raised THEN Exception ELSE a.action
          /\ sim_calls' = a.sims
          /\ sim_iterations' =
               IF a.sims = 0 THEN 0
               ELSE IF "DiscardAction" \in rs.legal THEN ItBucket(DiscardIters(rs.board))
               ELSE ItBucket(BaseIters(compute_pot(rs.stacks), rs.board))
          /\ eqs' = a.eqs
          /\ returned' =
               IF "DiscardAction" \in rs.legal
                 THEN NoteDiscard(returned, rs.my_cards, rs.board, a.eqs, 0)
               ELSE IF a.eqs = <<>> THEN returned
               ELSE Note(returned,
                         Request(rs.my_cards, rs.board, rs.street,
                                 BaseIters(compute_pot(rs.stacks), rs.board)),
                         a.eqs[1])
          /\ UNCHANGED bullyVars
          /\ UNCHANGED <<lockdown_mode, pool, pool2, score, score2, sim>>

\* the engine starts one of the given rounds with the given bankroll
HandleNewRoundIn(rounds) ==
  \E rb \in rounds :
    \E n \in {handle_new_round(eq_cache, rb[1], rb[2])} :
        /\ eq_cache' = n.eq_cache
        /\ lockdown_mode' = n.lockdown_mode
        /\ call' = [op |-> "handle_new_round", round_num |-> rb[1],
                    bankroll |-> rb[2]]
        /\ ret' = NoReturn
        /\ sim_calls' = 0
        /\ sim_iterations' = 0
        /\ eqs' = <<>>
        /\ returned' = IF n.eq_cache = EmptyCache THEN EmptyCache ELSE returned
        /\ UNCHANGED bullyVars
        /\ UNCHANGED <<pool, pool2, score, score2, sim>>

\* the engine ends a round (lines 54-55: pass)
HandleRoundOver ==
  /\ call' = [op |-> "handle_round_over"]
  /\ ret' = NoReturn
  /\ sim_calls' = 0
  /\ sim_iterations' = 0
  /\ eqs' = <<>>
  /\ UNCHANGED bullyVars
  /\ UNCHANGED <<eq_cache, lockdown_mode, returned, pool, pool2, score, score2, sim>>

\* A match before the lockdown: discards on a two-card board, decisions
\* after the flop, rounds 9 and 10 with an even bankroll
GetAction == GetActionIn(DiscardStates(FlopBoards) \cup PostFlopStates)
HandleNewRound == HandleNewRoundIn({<<9, 0>>, <<10, 0>>})

Next ==
  \/ CalculateEquity
  \/ GetBestDiscard
  \/ GetAction
  \/ HandleNewRound
  \/ HandleRoundOver

Spec == PlayerInit /\ [][Next]_vars

\* The engine's side alone, over the whole interface: discards on a
\* one-card board, pre-flop and post-flop decisions, and rounds that switch
\* the lockdown on and off
EngineGetAction ==
  GetActionIn(DiscardStates(EarlyBoards) \cup PreFlopStates \cup PostFlopStates)
EngineNewRound ==
  HandleNewRoundIn({<<10, 0>>, <<995, 30>>, <<1000, 30>>})

NextAction ==
  \/ EngineGetAction
  \/ EngineNewRound
  \/ HandleRoundOver

SpecAction == PlayerInit /\ [][NextAction]_vars

(***************************************************************************)
(* The bucket of line 291 as a system: two iteration counts are drawn,     *)
(* then each is mapped to its bucket.                                      *)
(***************************************************************************)
BucketInit ==
  /\ EvalIdle
  /\ eq_cache = EmptyCache
  /\ lockdown_mode = FALSE
  /\ \E n \in 0..MaxIterations, m \in 0..MaxIterations :
       call = [op |-> "it_bucket", iterations |-> n, other |-> m]
  /\ ret = NoReturn
  /\ sim_calls = 0
  /\ sim_iterations = 0
  /\ eqs = <<>>
  /\ returned = EmptyCache
  /\ sim = NoSim
  /\ BullyIdle

ComputeBuckets ==
  /\ call.op = "it_bucket"
  /\ ret = NoReturn
  /\ ret' = [type |-> "buckets", it_bucket |-> ItBucket(call.iterations),
             other |-> ItBucket(call.other)]
  /\ UNCHANGED bullyVars
  /\ UNCHANGED <<eq_cache, lockdown_mode, call, sim_calls, sim_iterations, eqs, returned,
                 pool, pool2, score, score2, sim>>

SpecBucket == BucketInit /\ [][ComputeBuckets]_vars

(***************************************************************************)
(* The iteration count of lines 131-141 as a system: two pots and two      *)
(* boards are drawn, the second no smaller than the first, then the count  *)
(* asked for and the bucket simulated are computed for each.               *)
(***************************************************************************)
\* pots on both sides of the steps at 80 and 200, up to both stacks all-in
Pots == {4, 40, 79, 80, 81, 120, 199, 200, 201, 400, 800}
\* the board holds up to 6 cards
BoardLens == 0..6
BoardOfLen(n) == SubSeq(full_deck, 1, n)

ItersInit ==
  /\ EvalIdle
  /\ eq_cache = EmptyCache
  /\ lockdown_mode = FALSE
  /\ \E pot \in Pots, other_pot \in Pots, n \in BoardLens, other_n \in BoardLens :
       /\ pot <= other_pot
       /\ n <= other_n
       /\ call = [op |-> "base_iters", pot |-> pot, board |-> BoardOfLen(n),
                  other_pot |-> other_pot, other_board |-> BoardOfLen(other_n)]
  /\ ret = NoReturn
  /\ sim_calls = 0
  /\ sim_iterations = 0
  /\ eqs = <<>>
  /\ returned = EmptyCache
  /\ sim = NoSim
  /\ BullyIdle

\* Lines 131-141 and 291: base_iters, and the it_bucket calculate_equity
\* makes of it
ComputeIters ==
  /\ call.op = "base_iters"
  /\ ret = NoReturn
  /\ ret' = [type |-> "iters",
             base_iters |-> BaseIters(call.pot, call.board),
             it_bucket |-> ItBucket(BaseIters(call.pot, call.board)),
             other_base |-> BaseIters(call.other_pot, call.other_board),
             other_bucket |-> ItBucket(BaseIters(call.other_pot, call.other_board))]
  /\ UNCHANGED bullyVars
  /\ UNCHANGED <<eq_cache, lockdown_mode, call, sim_calls, sim_iterations, eqs,
                 returned, pool, pool2, score, score2, sim>>

SpecIters == ItersInit /\ [][ComputeIters]_vars

(***************************************************************************)
(* The simulator as a system: calculate_equity_python is called, makes its *)
(* passes one shuffle at a time, and returns wins / iterations.            *)
(***************************************************************************)
\* The shuffles followed are those that put cards of LeadingCards first;
\* the 2c is a card of every own hand below.
LeadingCards ==
  {<<"2","c">>, <<"K","c">>, <<"A","h">>, <<"4","h">>, <<"5","c">>}

\* a board that is a full house by itself
KingsFull == << <<"K","s">>, <<"K","d">>, <<"K","h">>, <<"9","s">>, <<"9","d">> >>

MaxPasses == 2

\* a board of six cards, and three own cards to discard from on it
BoardOfSix == KingsFull \o << <<"5","c">> >>
OwnThree == << <<"2","c">>, <<"A","c">>, <<"3","d">> >>
\* three own cards before the flop: a pair of jacks and two hearts
JacksAndHearts == << <<"Q","h">>, <<"J","h">>, <<"J","d">> >>

\* the calls: two own cards, three own cards, a board that repeats an own
\* card, the call get_best_discard makes for the discard of OwnThree's
\* third card on BoardOfSix (lines 277-279), and three own cards on the
\* empty board
SimCalls ==
  {[op |-> "calculate_equity_python", my_cards |-> << <<"2","c">>, <<"A","c">> >>,
    board |-> KingsFull, iterations |-> n] : n \in 1..MaxPasses}
  \cup
  {[op |-> "calculate_equity_python",
    my_cards |-> << <<"2","c">>, <<"A","c">>, <<"3","d">> >>,
    board |-> KingsFull, iterations |-> 1],
   [op |-> "calculate_equity_python", my_cards |-> << <<"2","c">>, <<"A","c">> >>,
    board |-> << <<"K","s">>, <<"K","d">>, <<"K","h">>, <<"9","s">>, <<"A","c">> >>,
    iterations |-> 1],
   [op |-> "calculate_equity_python", my_cards |-> KeptAfter(OwnThree, 2),
    board |-> BoardAfterDiscard(OwnThree, BoardOfSix, 2), iterations |-> 1],
   [op |-> "calculate_equity_python", my_cards |-> JacksAndHearts,
    board |-> <<>>, iterations |-> 1]}

\* Lines 344-346 with a runout that goes on to 60 cards
LeadingLenTo60(board) == 3 + (60 - Len(board))

\* Lines 326-331, 343-347: the cards a pass reads from the shuffled deck
LeadingLen(board) == 3 + (IF Len(board) < 6 THEN 6 - Len(board) ELSE 0)
\* Lines 331, 346: deck[d] fails once d reaches len(deck)
Exhausts(my_cards, board) == LeadingLen(board) > DeckLen(my_cards, board)

\* the shuffles followed when a pass reads more than four cards
LongLeadings ==
  {<< <<"2","c">>, <<"2","d">>, <<"7","c">>, <<"3","s">>, <<"4","s">>,
      <<"8","d">>, <<"9","c">>, <<"T","h">>, <<"K","c">> >>,
   << <<"A","s">>, <<"A","d">>, <<"5","c">>, <<"Q","c">>, <<"Q","d">>,
      <<"6","h">>, <<"6","s">>, <<"2","h">>, <<"3","c">> >>}

Leadings(my_cards, board) ==
  IF Exhausts(my_cards, board) THEN {}
  ELSE IF LeadingLen(board) > 4 THEN
    {SubSeq(l, 1, LeadingLen(board)) : l \in
       {ll \in LongLeadings :
          LeadingLen(board) <= Len(ll) /\ Range(ll) \subseteq UnseenDeck(my_cards, board)}}
  ELSE
    {l \in [1..LeadingLen(board) -> UnseenDeck(my_cards, board) \cap LeadingCards] :
       \A i, j \in DOMAIN l : i # j => l[i] # l[j]}

\* a pass that asked the deck for a card it does not hold (IndexError)
ExhaustedPass(my_cards, board) ==
  [raised |-> TRUE, exhausted |-> TRUE, d |-> DeckLen(my_cards, board),
   deck_len |-> DeckLen(my_cards, board)]

\* the shuffles and SimPass for every call of the model, computed once
LeadingsOf == [c \in SimCalls |-> Leadings(c.my_cards, c.board)]
SimPassOf ==
  [x \in UNION {{<<c.my_cards, c.board, l>> : l \in LeadingsOf[c]} :
                c \in SimCalls} |->
     SimPass(x[1], x[2], x[3])]

SimInit ==
  /\ EvalIdle
  /\ eq_cache = EmptyCache
  /\ lockdown_mode = FALSE
  /\ call \in SimCalls
  /\ ret = NoReturn
  /\ sim_calls = 0
  /\ sim_iterations = 0
  /\ eqs = <<>>
  /\ returned = EmptyCache
  /\ sim = NoSim
  /\ BullyIdle

\* Lines 325-355: one pass of `for _ in range(iterations)`
SimIterate ==
  /\ call.op = "calculate_equity_python"
  /\ ret = NoReturn
  /\ sim.passes < call.iterations
  /\ \E leading \in LeadingsOf[call] \cup
                    (IF Exhausts(call.my_cards, call.board) THEN {<<>>} ELSE {}) :
       \E pass \in {IF leading = <<>> THEN ExhaustedPass(call.my_cards, call.board)
                    ELSE SimPassOf[<<call.my_cards, call.board, leading>>]} :
         IF pass.raised
           THEN /\ ret' = Exception
                /\ sim' = [sim EXCEPT !.last = pass]
           ELSE /\ ret' = ret
                /\ sim' = [passes |-> sim.passes + 1,
                           wins2 |-> sim.wins2 + pass.credit,
                           won |-> sim.won + (IF TupleLT(pass.s2, pass.s1) THEN 1 ELSE 0),
                           tied |-> sim.tied + (IF pass.s1 = pass.s2 THEN 1 ELSE 0),
                           last |-> pass]
  /\ UNCHANGED bullyVars
  /\ UNCHANGED <<eq_cache, lockdown_mode, call, sim_calls, sim_iterations, eqs, returned,
                 pool, pool2, score, score2>>

\* Line 357: return wins / float(iterations), kept as the pair of the half
\* wins and the iterations
SimReturn ==
  /\ call.op = "calculate_equity_python"
  /\ ret = NoReturn
  /\ sim.passes = call.iterations
  /\ ret' = [type |-> "equity", wins2 |-> sim.wins2, iterations |-> call.iterations]
  /\ UNCHANGED bullyVars
  /\ UNCHANGED <<eq_cache, lockdown_mode, call, sim_calls, sim_iterations, eqs, returned, sim,
                 pool, pool2, score, score2>>

NextSim == SimIterate \/ SimReturn

SpecSim == SimInit /\ [][NextSim]_vars

(***************************************************************************)
(* SpecBots: the four other players, each driven by the engine.  The game  *)
(* states and round states are the ones the engine hands over: stacks and  *)
(* pips add up to 400 a side, and min_r and max_r are the engine's raise   *)
(* bounds for those pips and stacks.                                       *)
(***************************************************************************)
BotGameStates ==
  {[round_num |-> 500, bankroll |-> 0],    \* level, no lockdown
   [round_num |-> 500, bankroll |-> 160],  \* ahead by 150 or more
   [round_num |-> 950, bankroll |-> 160],  \* 160 > 51 * 1.5 + 2
   [round_num |-> 990, bankroll |-> 30],   \* 30 > 11 * 1.5 + 2
   [round_num |-> 1000, bankroll |-> 4],   \* 4 > 1 * 1.5 + 2
   [round_num |-> 1000, bankroll |-> 3]}   \* 3 < 1 * 1.5 + 2

\* The betting situations before the flop
PreFlopSpots ==
  {\* small blind, first to act
   [legal |-> {"FoldAction", "CallAction", "RaiseAction"},
    my_pip |-> 1, opp_pip |-> 2, stacks |-> <<399, 398>>, min_r |-> 4, max_r |-> 400],
   \* big blind after a limp
   [legal |-> {"CheckAction", "RaiseAction"},
    my_pip |-> 2, opp_pip |-> 2, stacks |-> <<398, 398>>, min_r |-> 4, max_r |-> 400],
   \* big blind facing a raise to 14
   [legal |-> {"FoldAction", "CallAction", "RaiseAction"},
    my_pip |-> 2, opp_pip |-> 14, stacks |-> <<398, 386>>, min_r |-> 26, max_r |-> 400],
   \* big blind facing a raise to 199: less than half of the stack to call
   [legal |-> {"FoldAction", "CallAction", "RaiseAction"},
    my_pip |-> 2, opp_pip |-> 199, stacks |-> <<398, 201>>, min_r |-> 396, max_r |-> 400],
   \* big blind facing an all-in
   [legal |-> {"FoldAction", "CallAction"},
    my_pip |-> 2, opp_pip |-> 400, stacks |-> <<398, 0>>, min_r |-> 400, max_r |-> 400]}

\* The betting situations after the flop
PostFlopSpots ==
  {\* first to act, or checked to
   [legal |-> {"CheckAction", "RaiseAction"},
    my_pip |-> 0, opp_pip |-> 0, stacks |-> <<390, 390>>, min_r |-> 2, max_r |-> 390],
   \* facing a bet of 10
   [legal |-> {"FoldAction", "CallAction", "RaiseAction"},
    my_pip |-> 0, opp_pip |-> 10, stacks |-> <<390, 380>>, min_r |-> 20, max_r |-> 390],
   \* facing a bet of 100 into a pot of 20
   [legal |-> {"FoldAction", "CallAction", "RaiseAction"},
    my_pip |-> 0, opp_pip |-> 100, stacks |-> <<390, 290>>, min_r |-> 200, max_r |-> 390],
   \* facing a bet of 300, more than half of the stack
   [legal |-> {"FoldAction", "CallAction", "RaiseAction"},
    my_pip |-> 0, opp_pip |-> 300, stacks |-> <<390, 90>>, min_r |-> 390, max_r |-> 390]}

PreFlopHands ==
  {<< <<"2","c">>, <<"2","d">>, <<"2","h">> >>,   \* trips
   << <<"Q","c">>, <<"5","h">>, <<"Q","d">> >>,   \* queens
   << <<"T","c">>, <<"T","d">>, <<"5","h">> >>,   \* tens
   << <<"7","c">>, <<"7","d">>, <<"2","h">> >>,   \* sevens
   << <<"2","c">>, <<"9","h">>, <<"2","d">> >>,   \* deuces
   << <<"A","h">>, <<"K","h">>, <<"Q","h">> >>,   \* suited, high
   << <<"2","h">>, <<"3","h">>, <<"5","h">> >>,   \* suited, low
   << <<"A","c">>, <<"K","d">>, <<"4","h">> >>,   \* two cards king or ace
   << <<"2","c">>, <<"7","d">>, <<"9","h">> >>}   \* nothing

Flop3 == << <<"2","h">>, <<"7","h">>, <<"9","c">> >>
\* two private cards with the board they meet
PostFlopDeals ==
  {<< << <<"A","h">>, <<"K","h">> >>, Flop3 >>,   \* four hearts, ace high
   << << <<"Q","c">>, <<"Q","d">> >>, Flop3 >>,   \* overpair
   << << <<"9","d">>, <<"3","c">> >>, Flop3 >>,   \* top pair of nines
   << << <<"7","d">>, <<"K","c">> >>, Flop3 >>,   \* middle pair
   << << <<"3","c">>, <<"4","d">> >>, Flop3 >>,   \* nothing
   << << <<"7","d">>, <<"7","c">> >>, Flop3 >>,   \* three sevens
   << << <<"8","d">>, <<"T","c">> >>, Flop3 \o << <<"J","s">> >> >>}  \* 7 8 9 T J

\* three private cards with the two-card board the discard is asked on
DiscardDeals ==
  {<< << <<"A","h">>, <<"3","c">>, <<"9","d">> >>, << <<"2","h">>, <<"7","h">> >> >>,
   << << <<"3","h">>, <<"4","c">>, <<"4","d">> >>, << <<"2","h">>, <<"7","h">> >> >>,
   << << <<"3","h">>, <<"4","c">>, <<"9","d">> >>, << <<"2","h">>, <<"7","c">> >> >>}

BotRoundStates ==
  {[legal |-> s.legal, street |-> 0, my_cards |-> h, board |-> <<>>,
    my_pip |-> s.my_pip, opp_pip |-> s.opp_pip, stacks |-> s.stacks,
    min_r |-> s.min_r, max_r |-> s.max_r] : s \in PreFlopSpots, h \in PreFlopHands}
  \cup
  {[legal |-> s.legal, street |-> Len(d[2]), my_cards |-> d[1], board |-> d[2],
    my_pip |-> s.my_pip, opp_pip |-> s.opp_pip, stacks |-> s.stacks,
    min_r |-> s.min_r, max_r |-> s.max_r] : s \in PostFlopSpots, d \in PostFlopDeals}
  \cup
  {[legal |-> {"DiscardAction"}, street |-> 2, my_cards |-> d[1], board |-> d[2],
    my_pip |-> 0, opp_pip |-> 0, stacks |-> <<398, 398>>,
    min_r |-> 2, max_r |-> 398] : d \in DiscardDeals}

\* my_delta of handle_round_over
Deltas == {-400, -2, 1, 3, 9, 10, 400}

\* consecutive_uncalled_shoves is followed up to this count
MaxUncalled == 12

BotsInit ==
  /\ PlayerIdle
  /\ EvalIdle

BotCall(bot, gs, rs) == [op |-> "get_action", bot |-> bot, gs |-> gs, rs |-> rs]

\* python_skeleton lines 32-132.  This Player, all_in_bot's and
\* all_in_bot_v2's have no fields that change: every call is a first call.
SkeletonGetAction ==
  \E gs \in BotGameStates, rs \in BotRoundStates :
    /\ call = NoCall
    /\ call' = BotCall("python_skeleton", gs, rs)
    /\ ret' = skeleton_get_action(gs, rs)
    /\ UNCHANGED bullyVars
    /\ UNCHANGED <<eq_cache, lockdown_mode, sim_calls, sim_iterations, eqs, returned, sim>>
    /\ UNCHANGED evalVars

\* rl_bot lines 60-189, for a Player whose cache is empty and whose
\* lockdown_mode is what handle_new_round made of the game state.  After
\* the flop, and at the discard on a two-card board, every pool of the
\* simulator holds at least 5 cards.
RlBotOutcomes(rs) ==
  LET outs == SimOutcomes(FALSE, HalfWins(ItBucket(
                IF "DiscardAction" \in rs.legal THEN DiscardIters(rs.board)
                ELSE BaseIters(compute_pot(rs.stacks), rs.board))))
  IN  IF "DiscardAction" \in rs.legal
        THEN {<<o1, o2, o3>> : o1 \in outs, o2 \in outs, o3 \in outs}
      ELSE IF rs.street = 0 THEN {<<NoOutcome>>}
      ELSE {<<o>> : o \in outs}

RlBotGetAction ==
  /\ call = NoCall
  /\ \E gs \in {g \in BotGameStates : LockdownOf(g.round_num, g.bankroll) = lockdown_mode},
          rs \in BotRoundStates :
         \E trap \in TrapChoices(rs, lockdown_mode), tie_calls \in TieChoices(rs, lockdown_mode),
            outs \in RlBotOutcomes(rs) :
           \E a \in {get_action(eq_cache, lockdown_mode, rs, trap, tie_calls, outs)} :
             /\ call' = BotCall("rl_bot", gs, rs)
             /\ ret' = IF a.raised THEN Exception ELSE a.action
             /\ eq_cache' = a.eq_cache
             /\ sim_calls' = a.sims
             /\ sim_iterations' =
                  IF a.sims = 0 THEN 0
                  ELSE IF "DiscardAction" \in rs.legal THEN ItBucket(DiscardIters(rs.board))
                  ELSE ItBucket(BaseIters(compute_pot(rs.stacks), rs.board))
             /\ eqs' = a.eqs
             /\ returned' =
                  IF "DiscardAction" \in rs.legal
                    THEN NoteDiscard(returned, rs.my_cards, rs.board, a.eqs, 0)
                  ELSE IF a.eqs = <<>> THEN returned
                  ELSE Note(returned,
                            Request(rs.my_cards, rs.board, rs.street,
                                    BaseIters(compute_pot(rs.stacks), rs.board)),
                            a.eqs[1])
             /\ UNCHANGED bullyVars
             /\ UNCHANGED <<lockdown_mode, sim>>
             /\ UNCHANGED evalVars

\* all_in_bot lines 24-220
AllInGetAction ==
  \E gs \in BotGameStates, rs \in BotRoundStates, tie_calls \in BOOLEAN :
    /\ call = NoCall
    /\ call' = BotCall("all_in_bot", gs, rs)
    /\ ret' = allin_get_action(gs, rs, tie_calls)
    /\ UNCHANGED bullyVars
    /\ UNCHANGED <<eq_cache, lockdown_mode, sim_calls, sim_iterations, eqs, returned, sim>>
    /\ UNCHANGED evalVars

\* all_in_bot_v2 lines 30-146
V2GetAction ==
  \E gs \in BotGameStates, rs \in BotRoundStates :
    /\ call = NoCall
    /\ call' = BotCall("all_in_bot_v2", gs, rs)
    /\ ret' = v2_get_action(gs, rs)
    /\ UNCHANGED bullyVars
    /\ UNCHANGED <<eq_cache, lockdown_mode, sim_calls, sim_iterations, eqs, returned, sim>>
    /\ UNCHANGED evalVars

\* advanced_all_in, the one Player with fields, is followed through its
\* rounds in the order the engine calls it: handle_new_round, then any
\* number of get_action, then handle_round_over
BetweenRounds ==
  IF call = NoCall THEN TRUE
  ELSE call.bot = "advanced_all_in" /\ call.op = "handle_round_over"
InRound ==
  IF call = NoCall THEN FALSE
  ELSE call.bot = "advanced_all_in" /\ call.op \in {"handle_new_round", "get_action"}
AdvancedGameStates == {gs \in BotGameStates : gs.bankroll \in {0, 30, 3}}
AdvancedRoundStates ==
  {rs \in BotRoundStates :
     \/ rs.street = 0 /\ rs.my_cards[1] \in {<<"T","c">>, <<"2","c">>}
     \/ rs.street = 3 /\ rs.my_cards[1] \in {<<"Q","c">>, <<"3","c">>}
     \/ rs.street = 2 /\ rs.my_cards[1] = <<"A","h">>}

\* advanced_all_in lines 19-20
AdvancedNewRound ==
  /\ BetweenRounds
  /\ call' = [op |-> "handle_new_round", bot |-> "advanced_all_in"]
  /\ ret' = NoReturn
  /\ did_shove_this_round' = FALSE
  /\ UNCHANGED <<consecutive_uncalled_shoves, is_bully_mode>>
  /\ UNCHANGED <<eq_cache, lockdown_mode, sim_calls, sim_iterations, eqs, returned, sim>>
  /\ UNCHANGED evalVars

\* advanced_all_in lines 37-133
AdvancedGetAction ==
  \E gs \in AdvancedGameStates, rs \in AdvancedRoundStates :
    \E r \in {advanced_get_action(gs, rs, is_bully_mode)} :
      /\ InRound
      /\ call' = BotCall("advanced_all_in", gs, rs)
      /\ ret' = r.action
      /\ did_shove_this_round' = (did_shove_this_round \/ r.shoved)
      /\ UNCHANGED <<consecutive_uncalled_shoves, is_bully_mode>>
      /\ UNCHANGED <<eq_cache, lockdown_mode, sim_calls, sim_iterations, eqs, returned, sim>>
      /\ UNCHANGED evalVars

\* advanced_all_in lines 22-35
AdvancedRoundOver ==
  \E my_delta \in Deltas :
    \E after \in {advanced_handle_round_over(consecutive_uncalled_shoves,
                     is_bully_mode, did_shove_this_round, my_delta)} :
      /\ InRound
      /\ after[1] <= MaxUncalled
      /\ call' = [op |-> "handle_round_over", bot |-> "advanced_all_in",
                  my_delta |-> my_delta]
      /\ ret' = NoReturn
      /\ consecutive_uncalled_shoves' = after[1]
      /\ is_bully_mode' = after[2]
      /\ UNCHANGED did_shove_this_round
      /\ UNCHANGED <<eq_cache, lockdown_mode, sim_calls, sim_iterations, eqs, returned, sim>>
      /\ UNCHANGED evalVars

NextBots ==
  \/ RlBotGetAction
  \/ SkeletonGetAction
  \/ AllInGetAction
  \/ V2GetAction
  \/ AdvancedNewRound
  \/ AdvancedGetAction
  \/ AdvancedRoundOver

SpecBots == BotsInit /\ [][NextBots]_vars

(***************************************************************************)
(* The standard poker ranking, stated from the rules of the game and not   *)
(* from the code: the reference the claims about eval5 are checked against *)
(***************************************************************************)
RankOf(c) == RANK_TO_INT[c[1]]
RankSetOf(h) == {RankOf(h[i]) : i \in DOMAIN h}
TimesIn(h, r) == Cardinality({i \in DOMAIN h : RankOf(h[i]) = r})
RanksHeld(h, k) == {r \in RankSetOf(h) : TimesIn(h, r) = k}

StdFlush(h) == \A i, j \in DOMAIN h : h[i][2] = h[j][2]
StdWheel(h) == RankSetOf(h) = {14, 2, 3, 4, 5}
StdStraight(h) ==
  \/ StdWheel(h)
  \/ \E lo \in 2..10 : RankSetOf(h) = lo..(lo + 4)
StdStraightHigh(h) == IF StdWheel(h) THEN 5 ELSE SetMax(RankSetOf(h))

StdCategory(h) ==
  LET flush == StdFlush(h)
      straight == StdStraight(h)
      pairs == RanksHeld(h, 2)
      trips == RanksHeld(h, 3)
  IN  IF flush /\ straight THEN 8
      ELSE IF RanksHeld(h, 4) # {} THEN 7
      ELSE IF trips # {} /\ pairs # {} THEN 6
      ELSE IF flush THEN 5
      ELSE IF straight THEN 4
      ELSE IF trips # {} THEN 3
      ELSE IF Cardinality(pairs) = 2 THEN 2
      ELSE IF Cardinality(pairs) = 1 THEN 1
      ELSE 0

\* The ranks held exactly k times, highest first, each once
Desc(S) == SortSetDesc(S)
TheOne(S) == CHOOSE x \in S : TRUE

\* The tie-break payload of a hand of each category
StdPayload(h) ==
  LET cat == StdCategory(h)
  IN  CASE cat = 8 -> <<StdStraightHigh(h)>>
        [] cat = 7 -> <<TheOne(RanksHeld(h, 4))>> \o Desc(RanksHeld(h, 1))
        [] cat = 6 -> <<TheOne(RanksHeld(h, 3)), TheOne(RanksHeld(h, 2))>>
        [] cat = 5 -> Desc(RankSetOf(h))
        [] cat = 4 -> <<StdStraightHigh(h)>>
        [] cat = 3 -> <<TheOne(RanksHeld(h, 3))>> \o Desc(RanksHeld(h, 1))
        [] cat = 2 -> Desc(RanksHeld(h, 2)) \o Desc(RanksHeld(h, 1))
        [] cat = 1 -> <<TheOne(RanksHeld(h, 2))>> \o Desc(RanksHeld(h, 1))
        [] cat = 0 -> Desc(RankSetOf(h))

\* Lexicographic order of two payloads of one length
LexLess(a, b) ==
  \E i \in DOMAIN a : a[i] < b[i] /\ \A j \in 1..(i - 1) : a[j] = b[j]

PairEvaluated == score # <<>> /\ score2 # <<>>

\* Category and payload of every 5-card input, computed once per input
StdOfInput ==
  [h \in Hands5 \cup {Scramble(g) : g \in Hands5} |->
     [cat |-> StdCategory(h), pay |-> StdPayload(h)]]

(***************************************************************************)
(* Claims about eval5 and eval7 (specification SpecEval)                   *)
(***************************************************************************)
\* C1: the leading element of eval5's value is the hand's standard poker
\* category (8 straight flush ... 0 high card), so of two hands the one of
\* the higher category compares strictly greater.
C1_CategoryOrder ==
  PairEvaluated =>
    LET cat == StdOfInput[pool].cat
        cat2 == StdOfInput[pool2].cat
    IN  /\ score[1] = cat
        /\ score2[1] = cat2
        /\ cat > cat2 => TupleLT(score2, score) /\ ~TupleLT(score, score2)
        /\ cat < cat2 => TupleLT(score, score2) /\ ~TupleLT(score2, score)

\* a full house was compared with a straight flush, and lost
C1_Witness ==
  /\ PairEvaluated
  /\ StdCategory(pool) = 6
  /\ StdCategory(pool2) = 8
  /\ TupleLT(score, score2)

\* The 5-card hands inside a pool: the cards at five of its positions
SubHands(p) ==
  LET combos == CombinationsFrom(1, Len(p), 5)
  IN  {[i \in 1..5 |-> p[combos[k][i]]] : k \in DOMAIN combos}

\* C2: for 6, 7 or 8 cards eval7 returns the maximum of eval5 over all
\* 5-card subsets, by the full tuple order; for 5 cards it returns eval5 of
\* those cards.
C2_Eval7IsMaximum ==
  (score # <<>> /\ pool2 = <<>>) =>
    IF Len(pool) = 5 THEN score = eval5(pool)
    ELSE LET values == {eval5(h) : h \in SubHands(pool)}
         IN  /\ score \in values
             /\ \A v \in values : ~TupleLT(score, v)

\* eval7 ran on 8 cards and a later subset of the best category beat
\* an earlier one on its kickers
C2_Witness ==
  /\ score # <<>>
  /\ pool2 = <<>>
  /\ Len(pool) = 8
  /\ \E h \in SubHands(pool) :
        LET v == eval5(h) IN v[1] = score[1] /\ TupleLT(v, score)

\* C3: a hand of ranks A,2,3,4,5 is a straight (category 4, or 8 when
\* suited) with high card 5, and compares strictly below every straight of
\* the same category whose high card is 6 or more.
C3_WheelIsFiveHigh ==
  PairEvaluated =>
    /\ StdWheel(pool) => score = <<IF StdFlush(pool) THEN 8 ELSE 4, 5>>
    /\ StdWheel(pool2) => score2 = <<IF StdFlush(pool2) THEN 8 ELSE 4, 5>>
    /\ ( /\ StdWheel(pool)
         /\ StdStraight(pool2)
         /\ StdStraightHigh(pool2) >= 6
         /\ StdFlush(pool) = StdFlush(pool2) ) =>
           TupleLT(score, score2) /\ ~TupleLT(score2, score)

\* an unsuited wheel met an unsuited six-high straight
C3_Witness ==
  /\ PairEvaluated
  /\ StdWheel(pool)
  /\ ~StdFlush(pool)
  /\ score = <<4, 5>>
  /\ score2 = <<4, 6>>

\* C4: two hands of one category are ordered lexicographically by the
\* tie-break payload; two hands get equal values if and only if category
\* and payload are identical, whatever the suits and the order of the cards.
C4_PayloadOrder ==
  PairEvaluated =>
    LET cat == StdOfInput[pool].cat
        cat2 == StdOfInput[pool2].cat
        pay == StdOfInput[pool].pay
        pay2 == StdOfInput[pool2].pay
    IN  /\ score = <<cat>> \o pay
        /\ score2 = <<cat2>> \o pay2
        /\ cat = cat2 => (TupleLT(score, score2) <=> LexLess(pay, pay2))
        /\ (score = score2) <=> (cat = cat2 /\ pay = pay2)
        /\ Range(pool) = Range(pool2) => score = score2

\* two hands with one pair each, the same pair rank, ordered by a kicker;
\* the second hand is not in descending order
C4_Witness ==
  /\ PairEvaluated
  /\ StdCategory(pool) = 1
  /\ StdCategory(pool2) = 1
  /\ score[2] = score2[2]
  /\ TupleLT(score, score2)
  /\ RankOf(pool2[1]) < RankOf(pool2[2])


(***************************************************************************)
(* Claims about the equity cache (specification Spec)                      *)
(***************************************************************************)
\* the request of the last call, when it was a calculate_equity call
RequestOf(c) == Request(c.my_cards, c.board, c.street, c.iterations)

\* C5: a calculate_equity call whose own-card set, board sequence, street
\* and bucket were already asked for since the last clear returns the value
\* returned then, and does not call the simulator.
C5_RepeatedCallIsAHit ==
  [][(/\ call'.op = "calculate_equity"
      /\ RequestOf(call') \in DOMAIN returned)
       => (/\ ret' = [type |-> "equity", eq |-> returned[RequestOf(call')]]
           /\ sim_calls' = 0)]_vars

\* a hit that returns the estimate 0, asked for with the own cards in the
\* order sorted() does not give and with the other count of the bucket
C5_Witness ==
  /\ call.op = "calculate_equity"
  /\ call.my_cards = <<X2, X1>>
  /\ call.iterations = 50
  /\ sim_calls = 0
  /\ ret = [type |-> "equity", eq |-> 0]
  /\ \E k \in DOMAIN eq_cache : k[4] = 60 /\ k[2] = call.board /\ eq_cache[k] = 0

\* C6: a calculate_equity call whose board holds the cards of an earlier
\* request's board in another order (same own cards, street and bucket, no
\* clear in between) is a hit: it does not call the simulator.
C6_BoardIsUnordered ==
  (/\ call.op = "calculate_equity"
   /\ \E q \in DOMAIN returned :
        /\ q.own = RequestOf(call).own
        /\ q.street = call.street
        /\ q.bucket = RequestOf(call).bucket
        /\ q.board # call.board
        /\ Range(q.board) = Range(call.board))
    => sim_calls = 0

\* C8: handle_new_round empties the cache when round_num is a multiple of
\* 10 and leaves it as it is otherwise; every other operation keeps every
\* entry of the cache, with its value.
C8_ClearedOnlyEveryTenthRound ==
  [][/\ (call'.op = "handle_new_round" /\ call'.round_num % 10 = 0)
          => eq_cache' = EmptyCache
     /\ (call'.op = "handle_new_round" /\ call'.round_num % 10 # 0)
          => eq_cache' = eq_cache
     /\ (call'.op \in {"get_action", "calculate_equity", "get_best_discard",
                       "handle_round_over"})
          => \A k \in DOMAIN eq_cache :
               k \in DOMAIN eq_cache' /\ eq_cache'[k] = eq_cache[k]]_vars

\* round 9 has left a cache of three entries as it was
C8_Witness ==
  /\ call.op = "handle_new_round"
  /\ call.round_num = 9
  /\ Cardinality(DOMAIN eq_cache) = 3

\* C9: when get_best_discard returns index i, the three equities it got
\* are those of the retained pairs against the board extended by the
\* discarded card, the equity of i is at least the other two, and no lower
\* index has that equity.
C9_DiscardIsFirstMaximum ==
  (call.op = "get_best_discard" /\ ret.type = "DiscardAction")
    => /\ ret.card \in 0..2
       /\ Len(eqs) = 3
       /\ \A j \in 1..3 :
            \E q \in DOMAIN returned :
              /\ q.own = Range(call.my_cards) \ {call.my_cards[j]}
              /\ q.board = call.board \o <<call.my_cards[j]>>
              /\ returned[q] = eqs[j]
       /\ \A j \in 1..3 : eqs[j] <= eqs[ret.card + 1]
       /\ \A j \in 1..3 : j < ret.card + 1 => eqs[j] < eqs[ret.card + 1]

\* indices 1 and 2 share the highest equity, index 1 is returned
C9_Witness ==
  /\ call.op = "get_best_discard"
  /\ ret = [type |-> "DiscardAction", card |-> 1]
  /\ Len(eqs) = 3
  /\ eqs[1] < eqs[2]
  /\ eqs[2] = eqs[3]

(***************************************************************************)
(* Claims about the bucket (specification SpecBucket)                      *)
(***************************************************************************)
\* C7: every iteration count is mapped to one of 40, 60, 90, 120: at most
\* 45 to 40, 46..70 to 60, 71..100 to 90, more than 100 to 120; a count of
\* 41..45 gets the bucket of 40, and a larger count never gets a smaller
\* bucket.
C7_BucketOfIterations ==
  ret.type = "buckets"
    => /\ ret.it_bucket \in {40, 60, 90, 120}
       /\ ret.it_bucket = BucketOf(call.iterations)
       /\ (call.iterations \in 41..45 /\ call.other = 40) => ret.it_bucket = ret.other
       /\ call.iterations <= call.other => ret.it_bucket <= ret.other

\* 45 iterations get the bucket of 40 iterations
C7_Witness ==
  /\ call.op = "it_bucket"
  /\ call.iterations = 45
  /\ call.other = 40
  /\ ret = [type |-> "buckets", it_bucket |-> 40, other |-> 40]

(***************************************************************************)
(* Claims about get_action (specification SpecAction)                      *)
(***************************************************************************)
\* C10: whenever DiscardAction is among the legal actions, get_action
\* returns a DiscardAction with an index in 0..2, whatever the lockdown
\* mode and the street.
C10_DiscardWheneverLegal ==
  (call.op = "get_action" /\ "DiscardAction" \in call.rs.legal)
    => (ret.type = "DiscardAction" /\ ret.card \in 0..2)

(***************************************************************************)
(* Claims about the simulator (specification SpecSim)                      *)
(***************************************************************************)
NoDuplicate(cards) == \A i, j \in DOMAIN cards : i # j => cards[i] # cards[j]

PassMade == call.op = "calculate_equity_python" /\ sim.passes > 0 /\ ~sim.last.raised

\* C11: the simulator returns (passes won + half the passes tied) divided
\* by the iteration count, a lost pass adding nothing; the estimate lies in
\* [0, 1] and is a whole number of half wins over the iterations.
C11_EstimateIsWinsPlusHalfTies ==
  (call.op = "calculate_equity_python" /\ ret.type = "equity") =>
    /\ sim.passes = call.iterations
    /\ ret.iterations = call.iterations
    /\ ret.wins2 = 2 * sim.won + sim.tied
    /\ ret.wins2 >= 0
    /\ ret.wins2 <= 2 * ret.iterations

\* two passes, one tied and one lost: the estimate is 0.5 / 2
C11_Witness ==
  /\ call.op = "calculate_equity_python"
  /\ ret.type = "equity"
  /\ call.iterations = 2
  /\ sim.tied = 1
  /\ sim.won = 0
  /\ ret.wins2 = 1

\* C12: from own cards and a board without a duplicate, the own cards, the
\* three opponent cards and the completed board of every pass are pairwise
\* distinct.
C12_NoCardTwice ==
  (PassMade /\ NoDuplicate(call.my_cards \o call.board)) =>
    /\ Len(sim.last.opp3) = 3
    /\ Len(sim.last.sim_board) = IntMax(6, Len(call.board))
    /\ NoDuplicate(call.my_cards \o sim.last.opp3 \o sim.last.sim_board)

\* a pass on three own cards whose runout added a card to the board
C12_Witness ==
  /\ PassMade
  /\ NoDuplicate(call.my_cards \o call.board)
  /\ Len(call.my_cards) = 3
  /\ Len(sim.last.sim_board) = Len(call.board) + 1

\* The first of the retentions of cards3 whose value with the board is
\* maximal: no retention is worth more, every earlier one is worth less
IsFirstBestKeep(keep, cards3, current_board) ==
  \E i \in 0..2 :
    /\ keep = Keep(cards3, i)
    /\ \A j \in 0..2 :
         ~TupleLT(eval7(Keep(cards3, i) \o current_board),
                  eval7(Keep(cards3, j) \o current_board))
    /\ \A j \in 0..(i - 1) :
         TupleLT(eval7(Keep(cards3, j) \o current_board),
                 eval7(Keep(cards3, i) \o current_board))

\* C13: best_two_from_three returns the retention whose eval7 value with
\* the current board is maximal, the first one enumerated on a tie; the
\* opponent's retention is chosen against the board before the runout.
C13_RetentionIsFirstMaximum ==
  PassMade =>
    /\ IsFirstBestKeep(sim.last.opp2, sim.last.opp3, call.board)
    /\ Len(call.my_cards) = 3 =>
         IsFirstBestKeep(sim.last.my2, call.my_cards, call.board)

\* the three retentions of the opponent tied on the board as it stood, the
\* first was kept, and after the runout another one would have been worth
\* more
C13_Witness ==
  /\ PassMade
  /\ sim.last.opp2 = Keep(sim.last.opp3, 0)
  /\ \A j \in 1..2 :
       eval7(Keep(sim.last.opp3, j) \o call.board)
         = eval7(Keep(sim.last.opp3, 0) \o call.board)
  /\ \E j \in 1..2 :
       TupleLT(sim.last.s2, eval7(Keep(sim.last.opp3, j) \o sim.last.sim_board))

\* C14: calculate_equity_python fails whenever the own cards and the board
\* together hold a card twice, and never returns an estimate for them.
C14_DuplicateInputFails ==
  (call.op = "calculate_equity_python" /\ ~NoDuplicate(call.my_cards \o call.board)) =>
    ret.type # "equity"

(***************************************************************************)
(* Claims about wrong card counts (specification SpecWrongCount)           *)
(***************************************************************************)
\* C15: eval5 called with other than 5 cards, and eval7 called with fewer
\* than 5 or more than 8 cards, raise an error and return no value.
C15_WrongCountRaises ==
  score # <<>> => score = Raised

(***************************************************************************)
(* Claims about the lockdown (specification SpecAction)                    *)
(***************************************************************************)
\* C16: whenever lockdown_mode is set and DiscardAction is not legal,
\* get_action returns CheckAction or FoldAction, never CallAction or
\* RaiseAction.
C16_LockdownChecksOrFolds ==
  (/\ call.op = "get_action"
   /\ call.lockdown
   /\ "DiscardAction" \notin call.rs.legal) =>
    ret.type \in {"CheckAction", "FoldAction"}

(***************************************************************************)
(* Claims about the four other players                                     *)
(***************************************************************************)
BotAsked(bot) ==
  IF call.op = "get_action" THEN call.bot = bot ELSE FALSE

\* C17: in python_skeleton, advanced_all_in, all_in_bot and all_in_bot_v2,
\* whenever DiscardAction is not legal and bankroll > 1.5 * (NUM_ROUNDS -
\* round_num + 1) + 2, get_action returns CheckAction if it is legal and
\* FoldAction otherwise, never CallAction or RaiseAction, whatever the
\* street, the cards and the bully or caution state.
C17_SecureWinChecksOrFolds ==
  (/\ call.op = "get_action"
   /\ call.bot \in {"python_skeleton", "advanced_all_in", "all_in_bot", "all_in_bot_v2"}
   /\ "DiscardAction" \notin call.rs.legal
   /\ 2 * call.gs.bankroll > 3 * (NUM_ROUNDS - call.gs.round_num + 1) + 4)
  => /\ ret = (IF "CheckAction" \in call.rs.legal
                THEN [type |-> "CheckAction"] ELSE [type |-> "FoldAction"])
     /\ ret.type \notin {"CallAction", "RaiseAction"}

\* advanced_all_in in bully mode, 30 chips ahead in round 990, holds a pair of
\* tens before the flop and faces a raise it could call or re-raise: it folds
C17_Witness ==
  /\ BotAsked("advanced_all_in")
  /\ is_bully_mode
  /\ call.gs = [round_num |-> 990, bankroll |-> 30]
  /\ call.rs.street = 0
  /\ call.rs.my_cards[1] = <<"T","c">>
  /\ call.rs.opp_pip = 14
  /\ {"CallAction", "RaiseAction"} \subseteq call.rs.legal
  /\ ret = [type |-> "FoldAction"]

\* three of a kind, or a pair of queens or higher, by the rules of the game
TripsOrQueensUp(cards) ==
  \/ \E i, j, k \in DOMAIN cards :
       /\ i < j /\ j < k
       /\ cards[i][1] = cards[j][1] /\ cards[j][1] = cards[k][1]
  \/ \E i, j \in DOMAIN cards :
       i < j /\ cards[i][1] = cards[j][1] /\ cards[i][1] \in {"Q", "K", "A"}

\* C18: in all_in_bot, get_action on street 0 returns RaiseAction(max_raise)
\* only when the hand is three of a kind or holds a pair of queens or
\* higher; with a pair of tens or jacks the amount raised to is never
\* max_raise.
C18_ShoveOnlyTripsOrQueensUp ==
  (/\ BotAsked("all_in_bot")
   /\ call.rs.street = 0
   /\ ret.type = "RaiseAction")
  => (ret.amount = call.rs.max_r => TripsOrQueensUp(call.rs.my_cards))

\* C19: in all_in_bot, after the flop (street > 0) get_action returns a
\* RaiseAction only when evaluate_postflop_strength of the hand and the board
\* is at least 0.50 (600 in units of 1/1200); with a weaker hand it never
\* bets or raises.
C19_BetsOnlyFromHalf ==
  (/\ BotAsked("all_in_bot")
   /\ call.rs.street > 0
   /\ ret.type = "RaiseAction")
  => evaluate_postflop_strength(call.rs.my_cards, call.rs.board) >= 600

(***************************************************************************)
(* Claims about a cache miss (specification Spec)                          *)
(***************************************************************************)
\* the key of the last call, when it was a calculate_equity call
KeyOf(c) == CacheKey(c.my_cards, c.board, c.street, BucketOf(c.iterations))

\* C20: a calculate_equity call whose key is not in the cache calls the
\* simulator exactly once, with the bucket value as the iteration count and
\* not the count asked for; the value it returns is the simulator's, and
\* after the call the key is in the cache with the returned value.
C20_MissSimulatesOnceAndStores ==
  [][(/\ call'.op = "calculate_equity"
      /\ KeyOf(call') \notin DOMAIN eq_cache)
       => (/\ sim_calls' = 1
           /\ sim_iterations' = BucketOf(call'.iterations)
           /\ ret'.type = "equity"
                => (/\ KeyOf(call') \in DOMAIN eq_cache'
                    /\ eq_cache'[KeyOf(call')] = ret'.eq
                    /\ eqs' = <<ret'.eq>>))]_vars

\* a miss asked for with 50 iterations: the simulator ran the 60 of the
\* bucket once, every run was won, and the estimate is stored and returned
C20_Witness ==
  /\ call.op = "calculate_equity"
  /\ call.iterations = 50
  /\ sim_calls = 1
  /\ sim_iterations = 60
  /\ ret = [type |-> "equity", eq |-> 120]
  /\ KeyOf(call) \in DOMAIN eq_cache
  /\ eq_cache[KeyOf(call)] = 120

(***************************************************************************)
(* Claims about the cards of a pass (specification SpecSim)                *)
(***************************************************************************)
\* C21: in every pass of the simulator, called on own cards and a board or
\* by get_best_discard for three own cards and a board of 0 to 6 cards, the
\* board at the showdown holds exactly 6 cards and each of the two evaluated
\* pools (two retained cards and the board) holds exactly 8 cards.
C21_ShowdownBoardIsSix ==
  PassMade =>
    /\ Len(sim.last.sim_board) = 6
    /\ Len(sim.last.my2 \o sim.last.sim_board) = 8
    /\ Len(sim.last.opp2 \o sim.last.sim_board) = 8

C23_ItersAreMonotone ==
  ret.type = "iters"
    => /\ ret.base_iters <= ret.other_base
       /\ ret.it_bucket <= ret.other_bucket
       /\ ret.it_bucket \in {60, 90, 120}
       /\ (call.pot = call.other_pot /\ Len(call.board) = Len(call.other_board))
            => ret.base_iters = ret.other_base

\* a pot of 200 on three cards asks for 90 and on four cards still for 90;
\* both are simulated with 90
C23_Witness ==
  /\ call.op = "base_iters"
  /\ call.pot = 200 /\ call.other_pot = 200
  /\ Len(call.board) = 3 /\ Len(call.other_board) = 4
  /\ ret = [type |-> "iters", base_iters |-> 90, it_bucket |-> 90,
            other_base |-> 90, other_bucket |-> 90]

(***************************************************************************)
(* Claims about the bully mode of advanced_all_in (specification SpecBots) *)
(***************************************************************************)
RoundIsOver ==
  IF call.op = "handle_round_over" THEN call.bot = "advanced_all_in" ELSE FALSE

\* C24: after every handle_round_over of advanced_all_in, is_bully_mode is
\* true exactly when consecutive_uncalled_shoves has reached
\* bully_threshold (10).
C24_BullyIffThreshold ==
  RoundIsOver => (is_bully_mode <=> consecutive_uncalled_shoves >= bully_threshold)

\* the tenth uncalled shove in a row turns the mode on
C24_Witness ==
  /\ RoundIsOver
  /\ call.my_delta = 3
  /\ did_shove_this_round
  /\ consecutive_uncalled_shoves = bully_threshold
  /\ is_bully_mode

AdvancedCalled(op) ==
  IF call'.op = op THEN call'.bot = "advanced_all_in" ELSE FALSE
\* the call of the step is a raise to max_raise before the flop
ShovesPreFlop ==
  /\ call'.rs.street = 0
  /\ ret' = [type |-> "RaiseAction", amount |-> call'.rs.max_r]
\* the round that ends with this step was called: my_delta <= 0 or >= 10
CalledDown == call'.my_delta <= 0 \/ call'.my_delta >= 10

\* what a step may do to the three fields of advanced_all_in
RoundStep ==
  /\ AdvancedCalled("handle_new_round")
    => /\ ~did_shove_this_round'
       /\ UNCHANGED <<consecutive_uncalled_shoves, is_bully_mode>>
  /\ AdvancedCalled("get_action")
    => /\ did_shove_this_round' = (did_shove_this_round \/ ShovesPreFlop)
       /\ UNCHANGED <<consecutive_uncalled_shoves, is_bully_mode>>
  /\ (AdvancedCalled("handle_round_over") /\ InRound)
    => /\ UNCHANGED did_shove_this_round
       /\ (did_shove_this_round /\ ~CalledDown)
            => consecutive_uncalled_shoves' = consecutive_uncalled_shoves + 1
       /\ (did_shove_this_round /\ CalledDown)
            => (consecutive_uncalled_shoves' = 0 /\ ~is_bully_mode')
       /\ (~did_shove_this_round)
            => UNCHANGED <<consecutive_uncalled_shoves, is_bully_mode>>
  /\ (is_bully_mode /\ ~is_bully_mode')
    => /\ AdvancedCalled("handle_round_over")
       /\ did_shove_this_round
       /\ CalledDown

\* C25: in advanced_all_in, did_shove_this_round is false at the start of
\* every round and tells from then on whether the bot has shoved (raised to
\* max_raise before the flop) in the round; handle_round_over adds one to
\* consecutive_uncalled_shoves after a round with a shove and a delta
\* strictly between 0 and 10, sets it to 0 and leaves bully mode after a
\* round with a shove and any other delta, and leaves both fields alone
\* after a round without a shove; no other call changes them, so bully
\* mode is left only after a round with a shove and a delta <= 0 or >= 10.
C25_OnlyShovedRoundsCount == [][RoundStep]_vars

\* in bully mode, a round without a shove that lost the whole stack leaves
\* the counter at 11 and the mode on
C25_Witness ==
  /\ RoundIsOver
  /\ call.my_delta = -400
  /\ ~did_shove_this_round
  /\ consecutive_uncalled_shoves = 11
  /\ is_bully_mode

(***************************************************************************)
(* Claims about a repeated discard (specification Spec)                    *)
(***************************************************************************)
\* the request get_best_discard makes for index j of 1..3
DiscardRequest(c, j) ==
  Request(KeptAfter(c.my_cards, j - 1), BoardAfterDiscard(c.my_cards, c.board, j - 1),
          1, DiscardIters(c.board))
\* the estimates returned for the three requests since the last clear
EarlierEqs(c) == [j \in 1..3 |-> returned[DiscardRequest(c, j)]]
FirstHighest(values) ==
  CHOOSE i \in DOMAIN values :
    /\ \A j \in DOMAIN values : values[j] <= values[i]
    /\ \A j \in 1..(i - 1) : values[j] < values[i]

\* C26: a get_best_discard call whose three requests were answered since
\* the last clear of the cache, as they are after an earlier call with the
\* same private cards and board, calls the simulator for none of them,
\* gets the three estimates returned then and returns the index the
\* earlier call returned: the first index of the highest of them.
C26_RepeatedDiscardIsTheSame ==
  [][(/\ call'.op = "get_best_discard"
      /\ \A j \in 1..3 : DiscardRequest(call', j) \in DOMAIN returned)
       => (/\ sim_calls' = 0
           /\ eqs' = EarlierEqs(call')
           /\ ret' = [type |-> "DiscardAction", card |-> FirstHighest(eqs') - 1]
           /\ (call = call' /\ ret.type = "DiscardAction") => ret' = ret)]_vars

\* a repeated call: three hits, of which the second and the third share
\* the highest estimate, and index 1 is returned
C26_Witness ==
  /\ call.op = "get_best_discard"
  /\ sim_calls = 0
  /\ ret = [type |-> "DiscardAction", card |-> 1]
  /\ eqs = <<0, 120, 120>>
  /\ \A j \in 1..3 : returned[DiscardRequest(call, j)] = eqs[j]

(***************************************************************************)
(* Claims about pools of fewer than 5 cards (specification SpecWrongCount) *)
(***************************************************************************)
\* C27: the value eval7 returns for a pool of fewer than 5 cards never has
\* one of the categories that take five cards: straight (4), flush (5),
\* full house (6) or straight flush (8).
C27_NoFiveCardCategory ==
  (/\ call.op # "eval5"
   /\ Len(pool) < 5
   /\ score # <<>>)
    => score[1] \notin {4, 5, 6, 8}

(***************************************************************************)
(* Claims about the amount of a raise (specification SpecBots)             *)
(***************************************************************************)
\* C28: every RaiseAction a get_action of one of the five players returns
\* carries an amount between the bounds of round_state.raise_bounds():
\* min_raise <= amount <= max_raise, whenever min_raise <= max_raise.
C28_RaiseWithinBounds ==
  (/\ call.op = "get_action"
   /\ ret.type = "RaiseAction"
   /\ call.rs.min_r <= call.rs.max_r)
    => (/\ call.rs.min_r <= ret.amount
        /\ ret.amount <= call.rs.max_r)

\* rl_bot faces a bet of 300 after the flop with the run of the simulator
\* won on a dry board: 300 + int(320 * 0.55) = 476 is above max_raise, and
\* the raise is to max_raise = 390
C28_Witness ==
  /\ BotAsked("rl_bot")
  /\ call.rs.opp_pip = 300
  /\ ~is_board_wet(call.rs.board)
  /\ call.rs.max_r = 390
  /\ ret = [type |-> "RaiseAction", amount |-> 390]

(***************************************************************************)
(* Claims about the legality of the action (specification SpecAction)      *)
(***************************************************************************)
\* C29: whenever the legal set holds DiscardAction, CheckAction or
\* FoldAction, rl_bot's get_action returns an action whose type is in the
\* legal set, on every street and in and out of the lockdown.
C29_ActionIsLegal ==
  (/\ call.op = "get_action"
   /\ call.rs.legal \cap {"DiscardAction", "CheckAction", "FoldAction"} # {})
    => ret.type \in call.rs.legal

====
